---- MODULE Spec2Model ----
(***************************************************************************)
(* The dynamic filter-to-query translation of exim_backend:                *)
(* BaseDocTypeHandler.normalize_date_value and                             *)
(* BaseDocTypeHandler.dynamic_search (api/doctypes/base_handler.py), with  *)
(* the date-field sets of the Customer and Sales Order handlers.           *)
(*                                                                         *)
(* A request is drawn in Init with the entrance it comes through; each     *)
(* action is one whole call: DynamicSearch and CountDocuments are the      *)
(* handler methods, ApiDynamicSearch and ApiCountDocuments the endpoints   *)
(* of api/ai_chat.py that reach them through the handler registry.         *)
(*                                                                         *)
(* ConcSpec runs dynamic_search calls of several workers interleaved.      *)
(* PdfSpec is the PDF sales order session handler                          *)
(* (api/doctypes/pdf_sales_order_handler.py) behind its endpoints, and     *)
(* ChatSpec the chat integration on top of it                              *)
(* (api/pdf_chat_integration.py).                                          *)
(***************************************************************************)
EXTENDS Integers, Sequences, FiniteSets, TLC

VARIABLES
    today,      \* the calendar day frappe.utils.getdate() returns (a day number)
    call,       \* the request, as the arguments dynamic_search gets for it:
                \* [doctype, filters, limit, order_by]
    pc,         \* "ready" before the handler runs, "done" after it returned
    plan,       \* what the handler built: conditions, values, query, emits
    store,      \* the statements dynamic_search handed to frappe.db.sql
    ret,        \* what dynamic_search returned ([status |-> "none"]: not called)
    via,        \* the entrance the request comes through
    db,         \* what the record store does for the request (its outcome)
    resp,       \* what count_documents or an endpoint returned
    workers,    \* concurrent dynamic_search calls: each worker's locals
    cache,      \* frappe.cache(): the PDF sessions by session id
    context,    \* frappe.cache(): the chat contexts by conversation id
    orders,     \* the sales orders create_document has created, in order
    callers,    \* confirm_and_create_order calls in flight: their locals
    reply,      \* what the last PDF call that returned has returned
    clock       \* datetime.now(), counted in uploads

searchVars == <<call, pc, plan, ret, via, db, resp>>
pdfVars == <<cache, context, orders, callers, reply, clock>>
vars == <<today, store, searchVars, workers, pdfVars>>

----------------------------------------------------------------------------
(* Bounds of the model.                                                    *)

MaxTerms == 2       \* leaf terms (bare values + operators) of one filter spec
MaxInLen == 2       \* elements of a $in list
ClockSpan == 1      \* the clock takes the days FirstDay .. FirstDay + ClockSpan
MaxRows == 1        \* rows the record store returns for one statement

----------------------------------------------------------------------------
(* Python values.  A filter value is None, a str, an int, a bool, a list   *)
(* or a dict (an operator map, ordered, one entry per operator).  The      *)
(* strings the normaliser produces are kept by what they denote: "ts" is a *)
(* 'YYYY-MM-DD HH:MM:SS' string, "date" a date-only string in ISO format   *)
(* (today(), parse_date) or in the user's display format (formatdate).     *)

None == [k |-> "none"]
Str(s) == [k |-> "str", s |-> s]
Num(n) == [k |-> "num", n |-> n]
Bool(b) == [k |-> "bool", b |-> b]
List(items) == [k |-> "list", items |-> items]
Dict(ops) == [k |-> "dict", ops |-> ops]
Ts(day, tod) == [k |-> "ts", day |-> day, tod |-> tod]
DateStr(day, fmt) == [k |-> "date", day |-> day, fmt |-> fmt]

OpTerm(operator, arg) == [op |-> operator, arg |-> arg]
Entry(key, value) == [key |-> key, value |-> value]

\* Python truthiness: `not value`, `if normalized_value:`.
Truthy(v) ==
    CASE v.k = "none" -> FALSE
      [] v.k = "str" -> v.s # ""
      [] v.k = "num" -> v.n # 0
      [] v.k = "bool" -> v.b
      [] v.k = "list" -> v.items # <<>>
      [] v.k = "dict" -> v.ops # <<>>
      [] OTHER -> TRUE

\* value is None or value == "" (0, False and [] are not equal to "").
IsNoneOrEmpty(v) == v.k = "none" \/ (v.k = "str" /\ v.s = "")

\* isinstance(value, dict)
IsDict(v) == v.k = "dict"

----------------------------------------------------------------------------
(* Strings.  TLA+ strings cannot be scanned, so the string functions of    *)
(* the code are given by their graphs on the vocabulary of the model.      *)

InPool == <<"India", "USA", "UK">>      \* the elements of the $in lists

\* The characters of the strings the code iterates over (`$in` over a str).
Chars(s) ==
    CASE s = "[]" -> <<"[", "]">>
      [] s = "['india']" -> <<"[", "'", "i", "n", "d", "i", "a", "'", "]">>
      [] s = "['india', 'usa']" ->
            <<"[", "'", "i", "n", "d", "i", "a", "'", ",", " ",
              "'", "u", "s", "a", "'", "]">>
      [] s = "['india', 'usa', 'uk']" ->
            <<"[", "'", "i", "n", "d", "i", "a", "'", ",", " ",
              "'", "u", "s", "a", "'", ",", " ", "'", "u", "k", "'", "]">>
      [] OTHER -> <<>>

\* repr() of a list of str: "['India', 'USA']".
RECURSIVE ReprItems(_)
ReprItems(items) ==
    IF items = <<>> THEN ""
    ELSE "'" \o Head(items).s \o "'" \o
         (IF Len(items) > 1 THEN ", " ELSE "") \o ReprItems(Tail(items))

\* str(value)
PyStr(v) ==
    CASE v.k = "str" -> v.s
      [] v.k = "num" -> IF v.n = 0 THEN "0" ELSE "1000"
      [] v.k = "bool" -> IF v.b THEN "True" ELSE "False"
      [] v.k = "list" -> "[" \o ReprItems(v.items) \o "]"
      [] OTHER -> "None"

\* s.strip().lower(), for the strings of the vocabulary that it changes.
StripLower(s) ==
    CASE s = " Today " -> "today"
      [] s = "India" -> "india"
      [] s = "True" -> "true"
      [] s = "False" -> "false"
      [] s = "['India']" -> "['india']"
      [] s = "['India', 'USA']" -> "['india', 'usa']"
      [] s = "['India', 'USA', 'UK']" -> "['india', 'usa', 'uk']"
      [] OTHER -> s

\* `'days ago' in value_str or 'day ago' in value_str`
HasDaysAgo(s) == s \in {"7 days ago", "few days ago"}
\* `'weeks ago' in value_str or 'week ago' in value_str`
HasWeeksAgo(s) == s \in {"2 weeks ago"}
\* `'months ago' in value_str or 'month ago' in value_str`
HasMonthsAgo(s) == s \in {"1 month ago"}

\* int(value_str.split()[0]); -1 stands for the ValueError int() raises.
LeadingInt(s) ==
    CASE s = "7 days ago" -> 7
      [] s = "2 weeks ago" -> 2
      [] s = "1 month ago" -> 1
      [] OTHER -> -1

----------------------------------------------------------------------------
(* The calendar.  Days are numbered; day 0 starts a week and a month, a    *)
(* week has 7 days and, in the model's calendar, a month has 30.           *)

FirstDay == 40
Days == FirstDay .. (FirstDay + ClockSpan)

DaysPerWeek == 7
DaysPerMonth == 30
MinutesPerDay == 1440

\* frappe.utils.get_first_day_of_week
get_first_day_of_week(d) == d - (d % DaysPerWeek)

\* date - relativedelta(months=n); the ImportError fallback is days=30*n,
\* which is the same day in the model's calendar.
MonthsBefore(d, n) == d - n * DaysPerMonth

\* current_date.replace(day=1)
FirstOfMonth(d) == d - (d % DaysPerMonth)

\* frappe.utils.today(): the current date as 'YYYY-MM-DD'.
TodayStr(d) == DateStr(d, "iso")

\* frappe.utils.formatdate(date): the date in the user's display format.
formatdate(d) == DateStr(d, "user")

\* get_datetime(date).replace(hour=0, minute=0, second=0, microsecond=0)
StartOfDay(d) == [day |-> d, tod |-> 0]

\* PlusDays with the shift forgotten (faulty variant).
PlusDays_NoShift(dt, n) == dt

\* datetime + timedelta(days=n)
PlusDays(dt, n) == [day |-> dt.day + n, tod |-> dt.tod]

\* frappe.db.format_datetime(datetime)
format_datetime(dt) == Ts(dt.day, dt.tod)

\* Minutes since day 0 00:00 of a 'YYYY-MM-DD HH:MM:SS' string.
Minutes(ts) == ts.day * MinutesPerDay + ts.tod

\* frappe.utils.dateutils.parse_date: cuts the string at its first space,
\* tries the user's format and Frappe's date formats, returns 'YYYY-MM-DD'
\* or raises; -1 stands for the exception.
parse_date(s) ==
    CASE s = "01-08-2025" -> 1
      [] s = "31-08-2025" -> 31
      [] s = "2025-08-31" -> 31
      [] s = "2025-08-31 10:30:00" -> 31
      [] s = "2025-08-31 23:59:00" -> 31
      [] OTHER -> -1

----------------------------------------------------------------------------
(* BaseDocTypeHandler.normalize_date_value(value, field_name).             *)

DateTimeFields == {"creation", "modified"}

\* Lines 248-276: parse_date, then the manual formats.  `datetime` is a
\* local name of normalize_date_value (line 243 imports it inside the
\* 'this month' branch), so at line 268 it is unbound, strptime is never
\* called, the bare `except: continue` swallows the UnboundLocalError for
\* every format and the lowered string is returned as it is (line 274).
ParseFallback(value_str) ==
    IF parse_date(value_str) >= 0
    THEN DateStr(parse_date(value_str), "iso")
    ELSE Str(value_str)

normalize_date_value(value, field_name, now) ==
    IF ~Truthy(value) THEN None
    ELSE
      LET value_str == StripLower(PyStr(value))
          dt == field_name \in DateTimeFields
      IN  CASE value_str = "today" ->
                 IF dt THEN format_datetime(StartOfDay(now))
                       ELSE TodayStr(now)
            [] value_str = "yesterday" ->
                 IF dt THEN format_datetime(StartOfDay(now - 1))
                       ELSE formatdate(now - 1)
            [] value_str = "tomorrow" ->
                 IF dt THEN format_datetime(StartOfDay(now + 1))
                       ELSE formatdate(now + 1)
            [] value_str \in {"this week", "thisweek"} ->
                 IF dt THEN format_datetime(StartOfDay(get_first_day_of_week(now)))
                       ELSE formatdate(get_first_day_of_week(now))
            [] value_str \in {"last week", "lastweek"} ->
                 formatdate(get_first_day_of_week(now - DaysPerWeek))
            [] HasDaysAgo(value_str) ->
                 IF LeadingInt(value_str) >= 0
                 THEN formatdate(now - LeadingInt(value_str))
                 ELSE ParseFallback(value_str)
            [] ~HasDaysAgo(value_str) /\ HasWeeksAgo(value_str) ->
                 IF LeadingInt(value_str) >= 0
                 THEN formatdate(now - DaysPerWeek * LeadingInt(value_str))
                 ELSE ParseFallback(value_str)
            [] ~HasDaysAgo(value_str) /\ ~HasWeeksAgo(value_str)
                 /\ HasMonthsAgo(value_str) ->
                 IF LeadingInt(value_str) >= 0
                 THEN formatdate(MonthsBefore(now, LeadingInt(value_str)))
                 ELSE ParseFallback(value_str)
            [] value_str \in {"this month", "thismonth"} ->
                 formatdate(FirstOfMonth(now))
            [] OTHER -> ParseFallback(value_str)

----------------------------------------------------------------------------
(* The handlers.                                                           *)

Doctypes == {"Customer", "Sales Order"}

\* BaseDocTypeHandler.get_date_fields, SalesOrderHandler.get_date_fields
get_date_fields(doctype) ==
    IF doctype = "Sales Order"
    THEN {"creation", "modified", "transaction_date", "delivery_date", "po_date"}
    ELSE {"creation", "modified"}

\* get_search_fields: the columns the handler selects.
get_search_fields(doctype) ==
    IF doctype = "Sales Order"
    THEN {"name", "customer", "customer_name", "transaction_date",
          "delivery_date", "status", "grand_total", "currency", "company",
          "creation", "modified"}
    ELSE {"name", "customer_name", "customer_type", "mobile_no", "email_id",
          "customer_primary_contact", "territory", "customer_group",
          "default_currency", "default_price_list", "payment_terms",
          "creation", "modified"}

\* field_mapping without the alias table (faulty variant).
field_mapping_Identity(field) == field

\* field_mapping.get(field, field)
field_mapping(field) ==
    CASE field = "created" -> "creation"
      [] field = "created_date" -> "creation"
      [] field = "date" -> "transaction_date"
      [] field = "order_date" -> "transaction_date"
      [] OTHER -> field

----------------------------------------------------------------------------
(* The statement text.  A text is a sequence of tokens: "sql" is text the  *)
(* source spells out, "col" a field name interpolated between backticks,   *)
(* "raw" any other interpolated string (select list, table, order_by) and  *)
(* "ph" a named placeholder %(name)s.                                      *)

Sql(s) == [t |-> "sql", s |-> s]
Col(f) == [t |-> "col", s |-> f]
Raw(s) == [t |-> "raw", s |-> s]
Ph(name) == [t |-> "ph", s |-> name]

\* The placeholder names of a text.
Placeholders(text) == {text[i].s : i \in {j \in DOMAIN text : text[j].t = "ph"}}

\* The bound-parameter dict `values`; a later assignment to a name replaces
\* the earlier one.
EmptyDict == [n \in {} |-> None]
Bind(values, name, v) == (name :> v) @@ values

RECURSIVE BindAll(_, _)
BindAll(values, binds) ==
    IF binds = <<>> THEN values
    ELSE BindAll(Bind(values, Head(binds)[1], Head(binds)[2]), Tail(binds))

\* str(i) of a list index
Digit == <<"0", "1", "2", "3", "4", "5", "6", "7", "8", "9">>
RECURSIVE IndexStr(_)
IndexStr(i) ==
    IF i < Len(Digit) THEN Digit[i + 1]
    ELSE IndexStr(i \div Len(Digit)) \o Digit[(i % Len(Digit)) + 1]

\* What one loop iteration did for one leaf term of the filter spec: the
\* condition it appended (conds has 0 or 1 element) and the parameters it
\* assigned, in order.  outcome is "emitted", or why nothing was appended:
\* "empty" (line 308), "unnormalized" (line 335), "no_branch" (no elif
\* matches the operator).
Emission(key, field, operator, arg, conds, binds, outcome) ==
    [key |-> key, field |-> field, op |-> operator, arg |-> arg,
     conds |-> conds, binds |-> binds, outcome |-> outcome]

\* The handler's locals: conditions, values, and whether an exception was
\* raised inside the try block.
NewAcc == [conditions |-> <<>>, values |-> EmptyDict, emits |-> <<>>,
           raised |-> FALSE]

\* conditions.append(cond); values[name] = v for each bind
Emit(acc, em) ==
    [acc EXCEPT !.conditions = @ \o em.conds,
                !.values = BindAll(@, em.binds),
                !.emits = Append(@, em)]

\* len(op_value) raises TypeError unless op_value is a list or a str.
Sized(v) == v.k \in {"list", "str"}

\* enumerate(op_value): the items of a list, the characters of a str.
Elements(v) ==
    IF v.k = "list" THEN v.items
    ELSE [i \in DOMAIN Chars(v.s) |-> Str(Chars(v.s)[i])]

\* What a branch appends and assigns: conds (0 or 1 condition) and binds.
Term(conds, binds) == [conds |-> conds, binds |-> binds]

\* Line 338: param_name = f"{actual_field}_{operator}"
OpParam(actual_field, operator) == actual_field \o "_" \o operator

\* Lines 370, 373: f"{actual_field}_{i}"
InParam(actual_field, i) == actual_field \o "_" \o IndexStr(i)

\* LikeTerm with the value stored under the field name (faulty variant).
LikeTerm_FieldKey(actual_field, param_name, op_value) ==
    Term(<< <<Col(actual_field), Sql(" LIKE "), Ph(param_name)>> >>,
         << <<actual_field, op_value>> >>)

\* Lines 341-342: $like
LikeTerm(actual_field, param_name, op_value) ==
    Term(<< <<Col(actual_field), Sql(" LIKE "), Ph(param_name)>> >>,
         << <<param_name, op_value>> >>)

\* Line 344: $is_null
IsNullTerm(actual_field) ==
    Term(<< <<Sql("("), Col(actual_field), Sql(" IS NULL OR "),
              Col(actual_field), Sql(" = '' OR "),
              Col(actual_field), Sql(" = 'Not Set')")>> >>, <<>>)

\* Line 346: $is_not_null
IsNotNullTerm(actual_field) ==
    Term(<< <<Sql("("), Col(actual_field), Sql(" IS NOT NULL AND "),
              Col(actual_field), Sql(" != '' AND "),
              Col(actual_field), Sql(" != 'Not Set')")>> >>, <<>>)

\* Lines 352, 362: the column compared with the parameter as they are.
DirectCmp(actual_field, sqlop, param_name) ==
    <<Col(actual_field), Sql(" " \o sqlop \o " "), Ph(param_name)>>

\* DateCmp with the column left as it is (faulty variant).
DateCmp_ColumnRaw(actual_field, sqlop, param_name) ==
    <<Col(actual_field), Sql(" " \o sqlop \o " DATE("), Ph(param_name), Sql(")")>>

\* Lines 355, 365, 411: both sides cut to their calendar date.
DateCmp(actual_field, sqlop, param_name) ==
    <<Sql("DATE("), Col(actual_field), Sql(") " \o sqlop \o " DATE("),
      Ph(param_name), Sql(")")>>

\* Lines 350-356 ($gte, sqlop ">=") and 360-366 ($lte, sqlop "<="): every
\* field but creation and modified takes the DATE() form.
BoundTerm(actual_field, sqlop, param_name, op_value) ==
    Term(<< IF actual_field \in DateTimeFields
            THEN DirectCmp(actual_field, sqlop, param_name)
            ELSE DateCmp(actual_field, sqlop, param_name) >>,
         << <<param_name, op_value>> >>)

RECURSIVE Flatten(_)
Flatten(ss) == IF ss = <<>> THEN <<>> ELSE Head(ss) \o Flatten(Tail(ss))

\* Lines 370-373: $in over a sized op_value.
InTerm(actual_field, op_value) ==
    LET elems == Elements(op_value)
        phs == [i \in DOMAIN elems |->
                  IF i = 1 THEN <<Ph(InParam(actual_field, i - 1))>>
                  ELSE <<Sql(", "), Ph(InParam(actual_field, i - 1))>>]
    IN  Term(<< <<Col(actual_field), Sql(" IN (")>> \o Flatten(phs)
                \o <<Sql(")")>> >>,
             [i \in DOMAIN elems |-> <<InParam(actual_field, i - 1), elems[i]>>])

\* Lines 326-373: one operator of an operator map.
CompileOperator(acc, key, actual_field, operator, arg, date_fields, now) ==
    LET isDate == actual_field \in date_fields
        normalized_op_value == normalize_date_value(arg, actual_field, now)
        op_value == IF isDate THEN normalized_op_value ELSE arg
        param_name == OpParam(actual_field, operator)
        em(term, outcome) ==
            Emission(key, actual_field, operator, arg, term.conds, term.binds,
                     outcome)
    IN  IF acc.raised THEN acc
        ELSE IF isDate /\ ~Truthy(normalized_op_value)
        THEN Emit(acc, em(Term(<<>>, <<>>), "unnormalized"))
        ELSE CASE operator = "$like" ->
                   Emit(acc, em(LikeTerm(actual_field, param_name, op_value), "emitted"))
               [] operator = "$is_null" ->
                   Emit(acc, em(IsNullTerm(actual_field), "emitted"))
               [] operator = "$is_not_null" ->
                   Emit(acc, em(IsNotNullTerm(actual_field), "emitted"))
               [] operator = "$gte" ->
                   Emit(acc, em(BoundTerm(actual_field, ">=", param_name, op_value),
                                "emitted"))
               [] operator = "$lte" ->
                   Emit(acc, em(BoundTerm(actual_field, "<=", param_name, op_value),
                                "emitted"))
               [] operator = "$in" ->
                   IF ~Sized(op_value) THEN [acc EXCEPT !.raised = TRUE]
                   ELSE Emit(acc, em(InTerm(actual_field, op_value), "emitted"))
               [] OTHER -> Emit(acc, em(Term(<<>>, <<>>), "no_branch"))

RECURSIVE CompileOperators(_, _, _, _, _, _)
CompileOperators(acc, key, actual_field, ops, date_fields, now) ==
    IF ops = <<>> THEN acc
    ELSE CompileOperators(
            CompileOperator(acc, key, actual_field, Head(ops).op, Head(ops).arg,
                            date_fields, now),
            key, actual_field, Tail(ops), date_fields, now)

\* Lines 388-393: the day a keyword of the range branch denotes.
TargetDay(original_value_str, now) ==
    CASE original_value_str = "today" -> now
      [] original_value_str = "yesterday" -> now - 1
      [] OTHER -> now + 1

\* Lines 396-403: the half-open range of one day on a datetime field.
RangeTerm(actual_field, target_dt) ==
    LET target_start == StartOfDay(target_dt)
        next_day_start == PlusDays(target_start, 1)
        start_name == actual_field \o "_start"
        end_name == actual_field \o "_end"
    IN  Term(<< <<Col(actual_field), Sql(" >= "), Ph(start_name), Sql(" AND "),
                  Col(actual_field), Sql(" < "), Ph(end_name)>> >>,
             << <<start_name, format_datetime(target_start)>>,
                <<end_name, format_datetime(next_day_start)>> >>)

\* EqualityTerm with the value written into the text (faulty variant).
EqualityTerm_Inline(actual_field, value) ==
    Term(<< <<Col(actual_field), Sql(" = '"), Raw(PyStr(value)), Sql("'")>> >>,
         <<>>)

\* Lines 407-408 and 414-415: equality with the value as a parameter.
EqualityTerm(actual_field, value) ==
    Term(<< DirectCmp(actual_field, "=", actual_field) >>,
         << <<actual_field, value>> >>)

\* Lines 411-412: equality of the calendar dates.
DateEqualityTerm(actual_field, value) ==
    Term(<< DateCmp(actual_field, "=", actual_field) >>,
         << <<actual_field, value>> >>)

\* Lines 376-415: a direct value (not an operator map).
CompileBare(acc, key, actual_field, original_value, value, date_fields, now) ==
    LET em(term) ==
            Emission(key, actual_field, "", original_value, term.conds,
                     term.binds, "emitted")
        original_value_str == StripLower(PyStr(original_value))
    IN  IF actual_field \in date_fields
        THEN IF actual_field \in DateTimeFields
             THEN IF original_value_str \in {"today", "yesterday", "tomorrow"}
                  THEN Emit(acc, em(RangeTerm(actual_field,
                                              TargetDay(original_value_str, now))))
                  ELSE Emit(acc, em(EqualityTerm(actual_field, value)))
             ELSE Emit(acc, em(DateEqualityTerm(actual_field, value)))
        ELSE Emit(acc, em(EqualityTerm(actual_field, value)))

\* Lines 306-415: one iteration of `for field, value in filters.items()`.
CompileEntry(acc, e, date_fields, now) ==
    IF acc.raised THEN acc
    ELSE IF IsNoneOrEmpty(e.value)
    THEN Emit(acc, Emission(e.key, field_mapping(e.key), "", e.value, <<>>, <<>>, "empty"))
    ELSE LET actual_field == field_mapping(e.key)
             original_value == e.value
             normalized_value == normalize_date_value(e.value, actual_field, now)
             value == IF actual_field \in date_fields /\ ~IsDict(e.value)
                         /\ Truthy(normalized_value)
                      THEN normalized_value
                      ELSE e.value
         IN  IF IsDict(value)
             THEN CompileOperators(acc, e.key, actual_field, value.ops, date_fields, now)
             ELSE CompileBare(acc, e.key, actual_field, original_value, value,
                              date_fields, now)

RECURSIVE CompileFilters(_, _, _, _)
CompileFilters(acc, filters, date_fields, now) ==
    IF filters = <<>> THEN acc
    ELSE CompileFilters(CompileEntry(acc, Head(filters), date_fields, now),
                        Tail(filters), date_fields, now)

\* " AND ".join(conditions) if conditions else "1=1"
RECURSIVE JoinAnd(_)
JoinAnd(conditions) ==
    IF Len(conditions) = 1 THEN Head(conditions)
    ELSE Head(conditions) \o <<Sql(" AND ")>> \o JoinAnd(Tail(conditions))

\* where_clause without the match-all default (faulty variant).
where_clause_Empty(conditions) ==
    IF conditions # <<>> THEN JoinAnd(conditions) ELSE <<>>

where_clause(conditions) ==
    IF conditions # <<>> THEN JoinAnd(conditions) ELSE <<Sql("1=1")>>

\* Lines 422-428: the statement.
Query(doctype, conditions, order_by) ==
    <<Sql("SELECT "), Raw("search_fields"), Sql(" FROM tab"), Raw(doctype),
      Sql(" WHERE ")>>
    \o where_clause(conditions)
    \o <<Sql(" ORDER BY "), Raw(order_by), Sql(" LIMIT "), Ph("limit")>>

----------------------------------------------------------------------------
(* The requests.  A filter spec is an ordered mapping: a sequence of       *)
(* entries with distinct keys; an operator map is a sequence of operator   *)
(* terms with distinct operators.  A leaf term is one bare value or one    *)
(* operator with its operand.                                              *)

Leaf(key, operator, arg) == [key |-> key, op |-> operator, arg |-> arg]

\* The $in lists: the first n elements of InPool.
InList(n) == List([i \in 1..n |-> Str(InPool[i])])

Bare(key, strs) == {Leaf(key, "", Str(x)) : x \in strs}
Op(key, operator, strs) == {Leaf(key, operator, Str(x)) : x \in strs}

\* The leaf terms that occur in filter specs of any size.
CoreLeaves ==
    Bare("territory", {"India"})
    \cup Op("territory", "$like", {"%a%"})
    \cup Op("territory", "$Like", {"%a%"})
    \cup {Leaf("territory", "$is_null", Bool(TRUE))}
    \cup {Leaf("territory", "$in", InList(MaxInLen))}
    \cup Bare("territory_0", {"USA"})
    \cup Bare("limit", {"India"})
    \cup Bare("no_such_field", {"India"})
    \cup {Leaf("grand_total", "$gte", Num(1000))}
    \cup Bare("creation", {" Today ", "yesterday"})
    \cup Op("creation", "$gte", {"today", "7 days ago", "2025-08-31 10:30:00", ""})
    \cup Op("creation", "$lte", {"tomorrow"})
    \cup Bare("created", {"today"})
    \cup Bare("transaction_date", {"01-08-2025", "2025-08-31 10:30:00"})
    \cup Op("transaction_date", "$gte", {"01-08-2025"})
    \cup Op("transaction_date", "$lte", {"31-08-2025", "2025-08-31 23:59:00"})
    \cup Bare("date", {"31-08-2025"})

\* The leaf terms that occur only in filter specs of one term.
SingleLeaves ==
    {Leaf("territory", "", v) : v \in {None, Str(""), Str(" Today "), Num(0)}}
    \cup {Leaf("territory", "$is_not_null", Bool(TRUE))}
    \cup {Leaf("territory", "$in", InList(n)) : n \in 0..MaxInLen}
    \cup {Leaf("territory", "$in", Num(0))}
    \cup {Leaf("grand_total", "$lte", Num(1000))}
    \cup Bare("creation", {"today", "tomorrow", "this week", "last week",
                           "2025-08-31 10:30:00", "not a date"})
    \cup Op("creation", "$gte", {"yesterday", "this week", "last week",
                                 "2 weeks ago", "1 month ago", "this month",
                                 "not a date"})
    \cup Op("creation", "$lte", {"today", "7 days ago", "2025-08-31 23:59:00"})
    \cup {Leaf("creation", "$in", InList(MaxInLen))}
    \cup {Leaf("creation", "$is_null", b) : b \in {Bool(TRUE), Bool(FALSE)}}
    \cup Bare("created_date", {"today"})
    \cup Bare("modified", {"today"})
    \cup Op("modified", "$gte", {"today", "2025-08-31 10:30:00"})
    \cup Bare("transaction_date",
              {"today", "yesterday", "tomorrow", "this week", "last week",
               "7 days ago", "few days ago", "2 weeks ago", "1 month ago",
               "this month", "2025-08-31 23:59:00", "2025/08/15", "not a date"})
    \cup Op("transaction_date", "$gte",
            {"today", "this week", "2025-08-31 10:30:00", "2025-08-31 23:59:00"})
    \cup Op("transaction_date", "$lte", {"2025-08-31 10:30:00", "today"})
    \cup {Leaf("transaction_date", "$in", InList(MaxInLen))}
    \cup Bare("order_date", {"01-08-2025"})
    \cup Bare("delivery_date", {"tomorrow"})

\* filters[key] = value, or filters[key][operator] = arg: the filter spec
\* with one more leaf term.  A key or an operator that is already there
\* cannot come again (a dict holds a key once).
Keys(filters) == {filters[i].key : i \in DOMAIN filters}
OpsOf(ops) == {ops[i].op : i \in DOMAIN ops}

CanAdd(filters, leaf) ==
    IF leaf.op # "" /\ filters # <<>>
       /\ filters[Len(filters)].key = leaf.key
    THEN IsDict(filters[Len(filters)].value)
         /\ leaf.op \notin OpsOf(filters[Len(filters)].value.ops)
    ELSE leaf.key \notin Keys(filters)

AddLeaf(filters, leaf) ==
    IF leaf.op = "" THEN Append(filters, Entry(leaf.key, leaf.arg))
    ELSE IF filters # <<>> /\ filters[Len(filters)].key = leaf.key
    THEN [filters EXCEPT ![Len(filters)].value =
             Dict(Append(@.ops, OpTerm(leaf.op, leaf.arg)))]
    ELSE Append(filters, Entry(leaf.key, Dict(<<OpTerm(leaf.op, leaf.arg)>>)))

\* The filter specs of exactly n leaf terms over CoreLeaves.
RECURSIVE CoreFilters(_)
CoreFilters(n) ==
    IF n = 0 THEN {<<>>}
    ELSE {AddLeaf(f, leaf) : <<f, leaf>> \in
            {x \in CoreFilters(n - 1) \X CoreLeaves : CanAdd(x[1], x[2])}}

FilterSpecs ==
    UNION {CoreFilters(n) : n \in 0..MaxTerms}
    \cup {AddLeaf(<<>>, leaf) : leaf \in SingleLeaves}

DefaultLimit == 20
DefaultOrderBy == "modified desc"
CountLimit == 10000
NamesLimit == 5

\* The limits and orderings a caller passes besides the defaults.
Limits == {0 - 1, 0, DefaultLimit, CountLimit + 1}
OrderBys == {DefaultOrderBy, "creation asc", "no_such_column desc",
             "modified sideways"}

\* Filter specs of the requests that vary something else.
SmallFilters == {<<>>, <<Entry("territory", Str("India"))>>}

CountFilters ==
    SmallFilters
    \cup {<<Entry("creation", Str("today"))>>,
          <<Entry("no_such_field", Str("India"))>>,
          <<Entry("territory", Dict(<<OpTerm("$in", Num(0))>>))>>,
          <<Entry("customer_group", Str("India")),
            Entry("creation", Str("today"))>>}

Requests ==
    [doctype : Doctypes, filters : FilterSpecs, limit : {DefaultLimit},
     order_by : {DefaultOrderBy}]
    \cup [doctype : Doctypes, filters : SmallFilters, limit : Limits,
          order_by : OrderBys]

\* dynamic_search as count_documents calls it (line 482).
CountRequests ==
    [doctype : Doctypes, filters : CountFilters, limit : {CountLimit},
     order_by : {DefaultOrderBy}]

\* The form of a request to the dynamic_search endpoint; "" is a request
\* without doctype.
ApiDoctypes == Doctypes \cup {""}

ApiSearchRequests ==
    [doctype : ApiDoctypes, filters : CountFilters, limit : Limits,
     order_by : {DefaultOrderBy, "no_such_column desc"}]

ApiCountRequests ==
    [doctype : ApiDoctypes, filters : CountFilters, limit : {CountLimit},
     order_by : {DefaultOrderBy}]

Entrances == {"handler.dynamic_search", "handler.count_documents",
              "api.dynamic_search", "api.count_documents"}

RequestsOf(entrance) ==
    CASE entrance = "handler.dynamic_search" -> Requests
      [] entrance = "handler.count_documents" -> CountRequests
      [] entrance = "api.dynamic_search" -> ApiSearchRequests
      [] OTHER -> ApiCountRequests

----------------------------------------------------------------------------
(* The record store.  frappe.db.sql(query, values, as_dict=True) raises or *)
(* returns a list of rows; frappe.db.count(doctype) raises or returns the  *)
(* number of records.  An outcome says what the store does for one         *)
(* request: whether it raises, how many records match the filter spec      *)
(* (nrows) and, for the counting entrances, how many records there are.    *)

StoreRaises == [raised |-> TRUE, nrows |-> 0]
StoreOutcomes == {StoreRaises} \cup {[raised |-> FALSE, nrows |-> n] : n \in 0..MaxRows}

CountOutcomes ==
    {[raised |-> TRUE, nrows |-> 0, all |-> 0]}
    \cup {[raised |-> FALSE, nrows |-> m, all |-> a] :
            <<m, a>> \in {x \in (0..(NamesLimit + MaxRows)) \X (0..(NamesLimit + MaxRows)) :
                            x[1] <= x[2]}}

NoOutcome == [raised |-> FALSE, nrows |-> 0, asked |-> FALSE]

\* The rows of a result of n rows; a row is known by its name.
Rows(n) == [i \in 1..n |-> [name |-> i]]

\* LIMIT %(limit)s: at most limit rows; a negative limit is no statement
\* of the store's language and the store raises.
Fetched(outcome, limit) == IF outcome.nrows <= limit THEN outcome.nrows ELSE limit

----------------------------------------------------------------------------
(* State machine.                                                          *)

NoPlan == [conditions |-> <<>>, values |-> EmptyDict, emits |-> <<>>,
           raised |-> FALSE, query |-> <<>>]
NoRet == [status |-> "none"]

\* No concurrent calls and no PDF sessions: the part of the state the
\* single-request specification leaves alone.
NoWorkers == workers = <<>>
NoPdf ==
    /\ cache = <<>>
    /\ context = <<>>
    /\ orders = <<>>
    /\ callers = <<>>
    /\ reply = NoRet
    /\ clock = 0

Init ==
    /\ today \in Days
    /\ via \in Entrances
    /\ call \in RequestsOf(via)
    /\ pc = "ready"
    /\ plan = NoPlan
    /\ store = <<>>
    /\ ret = NoRet
    /\ db = NoOutcome
    /\ resp = NoRet
    /\ NoWorkers
    /\ NoPdf

\* `except Exception as e: return {"status": "error", ...}`
ErrorRet == [status |-> "error", message |-> "Search failed"]

\* SuccessRet echoing the filters under their mapped field names (faulty
\* variant).
SuccessRet_Mapped(filters, nrows) ==
    [status |-> "success", count |-> nrows, results |-> Rows(nrows),
     filters_applied |->
        [i \in DOMAIN filters |->
            Entry(field_mapping(filters[i].key), filters[i].value)]]

\* Lines 441-446: the result of a search that returned nrows rows.
SuccessRet(filters, nrows) ==
    [status |-> "success", count |-> nrows, results |-> Rows(nrows),
     filters_applied |-> filters]

\* Lines 417-452: the statement, the call of the store and the return
\* value, for what the loop left in acc.
Assemble(acc, doctype, filters, limit, order_by, outcome) ==
    IF acc.raised
    THEN [plan |-> [conditions |-> acc.conditions, values |-> acc.values,
                    emits |-> acc.emits, raised |-> TRUE, query |-> <<>>],
          stmts |-> <<>>,
          ret |-> ErrorRet]
    ELSE [plan |-> [conditions |-> acc.conditions,
                    values |-> Bind(acc.values, "limit", Num(limit)),
                    emits |-> acc.emits, raised |-> FALSE,
                    query |-> Query(doctype, acc.conditions, order_by)],
          stmts |-> <<[query |-> Query(doctype, acc.conditions, order_by),
                       values |-> Bind(acc.values, "limit", Num(limit))]>>,
          ret |-> IF outcome.raised \/ limit < 0 THEN ErrorRet
                  ELSE SuccessRet(filters, Fetched(outcome, limit))]

\* Lines 290-452: one call of dynamic_search when the store answers with
\* `outcome`: what it built, the statements it handed to the store and
\* what it returned.
Search(doctype, filters, limit, order_by, now, outcome) ==
    Assemble(CompileFilters(NewAcc, filters, get_date_fields(doctype), now),
             doctype, filters, limit, order_by, outcome)

\* The request is served: `served.search` is what dynamic_search did for
\* it, `served.resp` what its caller returned.
Serve(served, outcome) ==
    /\ plan' = served.search.plan
    /\ store' = store \o served.search.stmts
    /\ ret' = served.search.ret
    /\ resp' = served.resp
    /\ db' = outcome
    /\ pc' = "done"
    /\ UNCHANGED <<today, call, via, workers, pdfVars>>

\* BaseDocTypeHandler.dynamic_search(filters, limit, order_by)
DynamicSearch ==
    /\ pc = "ready"
    /\ via = "handler.dynamic_search"
    /\ \E outcome \in StoreOutcomes :
          Serve([search |-> Search(call.doctype, call.filters, call.limit,
                                   call.order_by, today, outcome),
                 resp |-> NoRet],
                outcome)

\* The parts of a request that does not reach dynamic_search.
NotCalled == [plan |-> NoPlan, stmts |-> <<>>, ret |-> NoRet]

\* r.get("name") for r in results if r.get("name")
DocumentNames(results) ==
    LET named == SelectSeq(results, LAMBDA r : r.name # 0)
    IN  [i \in DOMAIN named |-> named[i].name]

\* CountResponse without the names (faulty variant).
CountResponse_CountOnly(count, results) ==
    [status |-> "success", total_count |-> count]

\* Lines 486-500: the response of count_documents for a filtered count.
CountResponse(count, results) ==
    LET response == [status |-> "success", total_count |-> count]
        document_names == DocumentNames(results)
    IN  IF count > 0 /\ count <= NamesLimit /\ results # <<>>
           /\ document_names # <<>>
        THEN IF Len(results) = 1
             THEN response @@ [document_names |-> document_names,
                               first_result |-> results[1]]
             ELSE response @@ [document_names |-> document_names]
        ELSE response

\* Lines 483-500: count and results are read from the result of the search
\* with defaults (result.get("count", 0), result.get("results", [])).
FilteredCount(result) ==
    [search |-> result,
     resp |-> CountResponse(
                 IF "count" \in DOMAIN result.ret THEN result.ret.count ELSE 0,
                 IF "results" \in DOMAIN result.ret THEN result.ret.results
                 ELSE <<>>)]

\* Lines 468-512: BaseDocTypeHandler.count_documents(filters).
count_documents(doctype, filters, now, outcome) ==
    IF filters # <<>>
    THEN FilteredCount(Search(doctype, filters, CountLimit, DefaultOrderBy,
                              now, outcome))
    ELSE [search |-> NotCalled,
          resp |-> IF outcome.raised
                   THEN [status |-> "error", message |-> "Count failed"]
                   ELSE [status |-> "success", total_count |-> outcome.all]]

\* BaseDocTypeHandler.count_documents(filters)
CountDocuments ==
    /\ pc = "ready"
    /\ via = "handler.count_documents"
    /\ \E outcome \in CountOutcomes :
          Serve(count_documents(call.doctype, call.filters, today, outcome),
                outcome)

\* exim_backend.api.doctypes.DOCTYPE_HANDLERS: the registered handlers.
DOCTYPE_HANDLERS == {"Customer"}

\* Handlers with a count_with_breakdown method.
HasBreakdown == {"Customer"}

HasKey(filters, key) == \E i \in DOMAIN filters : filters[i].key = key

\* doctype.lower() + "s"
DoctypeKey(doctype) ==
    CASE doctype = "Customer" -> "customers"
      [] doctype = "Sales Order" -> "sales orders"
      [] OTHER -> "s"

\* result[key] = result.pop("results")
Renamed(result, key) ==
    IF "results" \in DOMAIN result
    THEN [k \in (DOMAIN result \ {"results"}) \cup {key} |->
            IF k = key THEN result.results ELSE result[k]]
    ELSE result

\* SalesOrderHandler.get_orders_by_customer_group / get_orders_by_territory:
\* a join with Customer on the one value, LIMIT 100.
OrdersByJoin(outcome) ==
    IF outcome.raised
    THEN [status |-> "error", message |-> "Failed to get orders"]
    ELSE [status |-> "success", count |-> outcome.nrows,
          results |-> Rows(outcome.nrows)]

\* Lines 1279-1285: the handler's result under the doctype's key.
Relabelled(result, doctype) ==
    [search |-> result, resp |-> Renamed(result.ret, DoctypeKey(doctype))]

\* ai_chat.dynamic_search, lines 1235-1297.
api_dynamic_search(doctype, filters, limit, order_by, now, outcome) ==
    IF doctype = ""
    THEN [search |-> NotCalled,
          resp |-> [status |-> "error", message |-> "DocType is required"]]
    ELSE IF doctype \in DOCTYPE_HANDLERS
    THEN IF doctype = "Sales Order"
            /\ (HasKey(filters, "customer_group") \/ HasKey(filters, "territory"))
         THEN [search |-> NotCalled,
               resp |-> Renamed(OrdersByJoin(outcome), "sales_orders")]
         ELSE Relabelled(Search(doctype, filters, limit, order_by, now, outcome),
                         doctype)
    ELSE [search |-> NotCalled,
          resp |-> [status |-> "error", message |-> "Handler not available"]]

\* The endpoint exim_backend.api.ai_chat.dynamic_search
ApiDynamicSearch ==
    /\ pc = "ready"
    /\ via = "api.dynamic_search"
    /\ \E outcome \in StoreOutcomes :
          Serve(api_dynamic_search(call.doctype, call.filters, call.limit,
                                   call.order_by, today, outcome),
                outcome)

\* The value of a Python function that ends without a return statement.
PyNone == [status |-> "None"]

\* CustomerHandler.count_with_breakdown(), customer_handler.py lines 261-295.
count_with_breakdown(outcome) ==
    IF outcome.raised
    THEN [status |-> "error", message |-> "Count failed"]
    ELSE [status |-> "success", total_count |-> outcome.all,
          by_territory |-> "rows", by_group |-> "rows"]

\* Lines 1401-1410: the count through the dynamic_search endpoint, for a
\* doctype without handler; nothing is returned unless it succeeded.
FallbackCount(result) ==
    [search |-> result.search,
     resp |-> IF result.resp.status = "success"
              THEN [status |-> "success",
                    total_count |-> IF "count" \in DOMAIN result.resp
                                    THEN result.resp.count ELSE 0]
              ELSE PyNone]

\* ai_chat.count_documents, lines 1371-1423.
api_count_documents(doctype, filters, now, outcome) ==
    IF doctype = ""
    THEN [search |-> NotCalled,
          resp |-> [status |-> "error", message |-> "DocType is required"]]
    ELSE IF doctype \in DOCTYPE_HANDLERS
    THEN IF doctype \in HasBreakdown
         THEN [search |-> NotCalled, resp |-> count_with_breakdown(outcome)]
         ELSE count_documents(doctype, filters, now, outcome)
    ELSE IF filters # <<>>
    THEN FallbackCount(api_dynamic_search(doctype, filters, CountLimit,
                                          DefaultOrderBy, now, outcome))
    ELSE [search |-> NotCalled,
          resp |-> IF outcome.raised
                   THEN [status |-> "error",
                         message |-> "Failed to count documents"]
                   ELSE [status |-> "success", total_count |-> outcome.all]]

\* The endpoint exim_backend.api.ai_chat.count_documents
ApiCountDocuments ==
    /\ pc = "ready"
    /\ via = "api.count_documents"
    /\ \E outcome \in CountOutcomes :
          Serve(api_count_documents(call.doctype, call.filters, today, outcome),
                outcome)

Next ==
    \/ DynamicSearch
    \/ CountDocuments
    \/ ApiDynamicSearch
    \/ ApiCountDocuments

Spec == Init /\ [][Next]_vars

----------------------------------------------------------------------------
(* Concurrent searches.  A handler instance holds self.doctype and         *)
(* self.label, assigned in __init__ and never again; everything            *)
(* dynamic_search builds (conditions, values, the statement) is a local of *)
(* the call.  A worker is one thread of the server: it enters              *)
(* dynamic_search, runs the loop one filter entry at a time, then builds   *)
(* the statement, hands it to the store and returns; the workers' steps    *)
(* interleave freely.  The store's log and the clock are what they share.  *)

MaxProcs == 2       \* workers
MaxCalls == 2       \* calls one worker makes, one after the other

Procs == 1..MaxProcs

ConcRequests ==
    [doctype : Doctypes,
     filters : {<<>>,
                <<Entry("customer_group", Str("India")),
                  Entry("creation", Str("today"))>>,
                <<Entry("territory", Dict(<<OpTerm("$in", Num(0))>>))>>},
     limit : {DefaultLimit}, order_by : {DefaultOrderBy}]

NoCall == [doctype |-> "", filters |-> <<>>, limit |-> 0, order_by |-> ""]
NoSearch == [plan |-> NoPlan, stmts |-> <<>>, ret |-> NoRet]

\* A worker that has not entered dynamic_search yet.
IdleWorker ==
    [pc |-> "idle", call |-> NoCall, calls |-> 0, i |-> 1, acc |-> NewAcc,
     overlap |-> FALSE, outcome |-> NoOutcome, search |-> NoSearch]

\* The locals of a previous call are still there when the next one starts
\* (faulty variant).
FreshLocals_Kept(left) == [left EXCEPT !.raised = FALSE]

\* Lines 299-300: `conditions = []`, `values = {}`, whatever an earlier
\* call left behind.
FreshLocals(left) == NewAcc

\* Some other worker is in its loop and has built something.
Overlaps(p) ==
    \E q \in Procs \ {p} :
        workers[q].pc = "loop" /\ workers[q].acc.emits # <<>>

\* Lines 290-303: worker p enters dynamic_search with a request.
Enter(p) ==
    /\ workers[p].pc \in {"idle", "done"}
    /\ workers[p].calls < MaxCalls
    /\ \E request \in ConcRequests :
          workers' = [workers EXCEPT ![p] =
              [pc |-> "loop", call |-> request, calls |-> @.calls + 1,
               i |-> 1, acc |-> FreshLocals(@.acc), overlap |-> Overlaps(p),
               outcome |-> NoOutcome, search |-> NoSearch]]
    /\ UNCHANGED <<today, store, searchVars, pdfVars>>

\* Lines 306-415: worker p runs one iteration of the loop.
Iterate(p) ==
    /\ workers[p].pc = "loop"
    /\ workers[p].i <= Len(workers[p].call.filters)
    /\ workers' = [workers EXCEPT ![p] =
          [@ EXCEPT !.acc = CompileEntry(@, workers[p].call.filters[workers[p].i],
                                         get_date_fields(workers[p].call.doctype),
                                         today),
                    !.i = @ + 1,
                    !.overlap = @ \/ Overlaps(p)]]
    /\ UNCHANGED <<today, store, searchVars, pdfVars>>

\* What worker w has done when it returns and the store answered with
\* outcome.
Returned(w, outcome) ==
    [w EXCEPT !.pc = "done", !.outcome = outcome,
              !.search = Assemble(w.acc, w.call.doctype, w.call.filters,
                                  w.call.limit, w.call.order_by, outcome)]

\* Lines 417-452: worker p builds the statement, calls the store and
\* returns.
Return(p) ==
    /\ workers[p].pc = "loop"
    /\ workers[p].i > Len(workers[p].call.filters)
    /\ \E outcome \in StoreOutcomes :
          /\ workers' = [workers EXCEPT ![p] = Returned(@, outcome)]
          /\ store' = store \o workers'[p].search.stmts
    /\ UNCHANGED <<today, searchVars, pdfVars>>

ConcInit ==
    /\ today \in Days
    /\ store = <<>>
    /\ workers = [p \in Procs |-> IdleWorker]
    /\ call = NoCall
    /\ pc = "ready"
    /\ plan = NoPlan
    /\ ret = NoRet
    /\ via = ""
    /\ db = NoOutcome
    /\ resp = NoRet
    /\ NoPdf

ConcNext == \E p \in Procs : Enter(p) \/ Iterate(p) \/ Return(p)

ConcSpec == ConcInit /\ [][ConcNext]_vars

----------------------------------------------------------------------------
(* Chat messages.  PDFChatIntegration._parse_user_intent works on the      *)
(* characters of the message: substring tests for the keywords, then       *)
(* regular expressions for the modification phrases.  A text is a sequence *)
(* of characters.                                                          *)

MaxOrders == 2      \* sales orders create_document creates
MaxUploads == 2     \* PDF uploads
MaxCallers == 2     \* concurrent callers of confirm_and_create_order

UpperCase ==

    <<"A", "B", "C", "D", "E", "F", "G", "H", "I", "J", "K", "L", "M", "N",
      "O", "P", "Q", "R", "S", "T", "U", "V", "W", "X", "Y", "Z">>
LowerCase ==
    <<"a", "b", "c", "d", "e", "f", "g", "h", "i", "j", "k", "l", "m", "n",
      "o", "p", "q", "r", "s", "t", "u", "v", "w", "x", "y", "z">>

\* str.lower()
LowerChar(ch) ==
    IF \E i \in DOMAIN UpperCase : UpperCase[i] = ch
    THEN LowerCase[CHOOSE i \in DOMAIN UpperCase : UpperCase[i] = ch]
    ELSE ch
lower(text) == [i \in DOMAIN text |-> LowerChar(text[i])]

\* The characters \s matches and str.strip() removes.
Whitespace == {" ", "\t", "\n", "\r"}
Digits == {"0", "1", "2", "3", "4", "5", "6", "7", "8", "9"}

\* str.strip()
RECURSIVE strip(_)
strip(text) ==
    IF text = <<>> THEN text
    ELSE IF Head(text) \in Whitespace THEN strip(Tail(text))
    ELSE IF text[Len(text)] \in Whitespace
    THEN strip(SubSeq(text, 1, Len(text) - 1))
    ELSE text

\* `keyword in message_lower`
Occurs(keyword, text) ==
    \E k \in 0..(Len(text) - Len(keyword)) :
        SubSeq(text, k + 1, k + Len(keyword)) = keyword

\* Line 139.
ConfirmKeywords ==
    {<<"c", "o", "n", "f", "i", "r", "m">>,
     <<"y", "e", "s">>,
     <<"c", "r", "e", "a", "t", "e">>,
     <<"p", "r", "o", "c", "e", "e", "d">>,
     <<"o", "k">>,
     <<"c", "o", "r", "r", "e", "c", "t">>}
\* Line 143.
CancelKeywords ==
    {<<"c", "a", "n", "c", "e", "l">>,
     <<"n", "o">>,
     <<"s", "t", "o", "p">>,
     <<"a", "b", "o", "r", "t">>}
\* Line 147.
ShowKeywords ==
    {<<"s", "h", "o", "w">>,
     <<"d", "i", "s", "p", "l", "a", "y">>,
     <<"v", "i", "e", "w">>,
     <<"w", "h", "a", "t">>,
     <<"d", "a", "t", "a">>}

\* Regular expressions: a pattern is a sequence of nodes, matched one
\* after the other.
Lit(s) == [k |-> "lit", s |-> s]                    \* the characters s
OneOf(alts) == [k |-> "alt", alts |-> alts]         \* (?:a|b|c)
Maybe(pat) == [k |-> "opt", pat |-> pat]            \* (?:pat)?
OneOrMore(cls) == [k |-> "plus", cls |-> cls]            \* [cls]+
ZeroOrMore(cls) == [k |-> "star", cls |-> cls]             \* [cls]*
Times(cls, n) == [k |-> "rep", cls |-> cls, n |-> n]    \* [cls]{n}

\* A character class: the characters of a set, or all but them.
Class(chars) == [neg |-> FALSE, chars |-> chars]
NotClass(chars) == [neg |-> TRUE, chars |-> chars]
InClass(ch, cls) == (ch \in cls.chars) # cls.neg

\* text[i+1..j] is in the class throughout.
Run(text, i, j, cls) == \A n \in (i + 1)..j : InClass(text[n], cls)

\* The positions a match of the pattern can end at when it starts at one
\* of the positions of `from` (a position is the number of characters
\* before it).
RECURSIVE Ends(_, _, _)
Ends(pat, text, from) ==
    IF pat = <<>> \/ from = {} THEN from
    ELSE LET node == Head(pat)
             after ==
                CASE node.k = "lit" ->
                        {i + Len(node.s) : i \in
                            {j \in from : /\ j + Len(node.s) <= Len(text)
                                          /\ SubSeq(text, j + 1, j + Len(node.s))
                                             = node.s}}
                  [] node.k = "alt" ->
                        UNION {{i + Len(a) : i \in
                                  {j \in from : /\ j + Len(a) <= Len(text)
                                                /\ SubSeq(text, j + 1, j + Len(a)) = a}}
                               : a \in node.alts}
                  [] node.k = "opt" -> from \cup Ends(node.pat, text, from)
                  [] node.k = "plus" ->
                        {j \in 1..Len(text) :
                            \E i \in from : i < j /\ Run(text, i, j, node.cls)}
                  [] node.k = "star" ->
                        {j \in 0..Len(text) :
                            \E i \in from : i <= j /\ Run(text, i, j, node.cls)}
                  [] OTHER ->
                        {i + node.n : i \in
                            {j \in from : /\ j + node.n <= Len(text)
                                          /\ Run(text, j, j + node.n, node.cls)}}
         IN  Ends(Tail(pat), text, after)

Max(S) == CHOOSE x \in S : \A y \in S : y <= x
Min(S) == CHOOSE x \in S : \A y \in S : x <= y

NoMatch == [found |-> FALSE, group |-> <<>>]

\* re.search(prefix (group) suffix, text): the leftmost match, and the
\* group as the greedy quantifiers of these patterns leave it (the latest
\* start, then the latest end).
re_search(prefix, group, suffix, text) ==
    LET starts == {s \in 0..Len(text) :
                      Ends(prefix \o group \o suffix, text, {s}) # {}}
    IN  IF starts = {} THEN NoMatch
        ELSE LET opens == {c \in Ends(prefix, text, {Min(starts)}) :
                              Ends(group \o suffix, text, {c}) # {}}
                 closes == {e \in Ends(group, text, {Max(opens)}) :
                              Ends(suffix, text, {e}) # {}}
             IN  [found |-> TRUE,
                  group |-> SubSeq(text, Max(opens) + 1, Max(closes))]

\* (?:change|update|modify|set)
Verb ==
    OneOf({<<"c", "h", "a", "n", "g", "e">>,
           <<"u", "p", "d", "a", "t", "e">>,
           <<"m", "o", "d", "i", "f", "y">>,
           <<"s", "e", "t">>})

\* \s+
Blanks == OneOrMore(Class(Whitespace))

\* (?:to|as)?\s*[:\s]+
ToOrAs ==
    <<Maybe(<<OneOf({<<"t", "o">>, <<"a", "s">>})>>),
      ZeroOrMore(Class(Whitespace)), OneOrMore(Class(Whitespace \cup {":"}))>>

\* (\d{4}-\d{2}-\d{2})
IsoDate ==
    <<Times(Class(Digits), 4), Lit(<<"-">>), Times(Class(Digits), 2),
      Lit(<<"-">>), Times(Class(Digits), 2)>>

\* Line 154.
CustomerPrefix ==
    <<Verb, Blanks, Lit(<<"c", "u", "s", "t", "o", "m", "e", "r">>), Blanks>> \o ToOrAs
CustomerGroup == <<OneOrMore(NotClass({"\n", ","}))>>

\* Line 159.
DatePrefix ==
    <<Verb, Blanks, Maybe(<<Lit(<<"o", "r", "d", "e", "r">>), Blanks>>),
      Lit(<<"d", "a", "t", "e">>), Blanks>> \o ToOrAs

\* Line 164.
DeliveryPrefix ==
    <<Verb, Blanks, Lit(<<"d", "e", "l", "i", "v", "e", "r", "y">>), Blanks,
      Lit(<<"d", "a", "t", "e">>), Blanks>> \o ToOrAs

\* Line 169.
ItemPrefix == <<Verb, Blanks, Lit(<<"i", "t", "e", "m">>), Blanks>>
ItemIndexGroup == <<OneOrMore(Class(Digits))>>
ItemMiddle ==
    <<Blanks, OneOf({<<"q", "u", "a", "n", "t", "i", "t", "y">>,
                    <<"q", "t", "y">>}), Blanks>> \o ToOrAs
ItemValueGroup ==
    <<OneOrMore(Class(Digits)), Maybe(<<Lit(<<".">>), OneOrMore(Class(Digits))>>)>>

\* int(digits)
DigitValue(ch) == CHOOSE n \in 0..9 : <<"0", "1", "2", "3", "4", "5", "6", "7", "8", "9">>[n + 1] = ch
RECURSIVE int(_)
int(digits) ==
    IF digits = <<>> THEN 0
    ELSE 10 * int(SubSeq(digits, 1, Len(digits) - 1))
         + DigitValue(digits[Len(digits)])

\* The modifications dict: a sequence of [key, value] in the order of
\* assignment.  Lines 151-175.
Modifications(message_lower) ==
    LET customer_match == re_search(CustomerPrefix, CustomerGroup, <<>>, message_lower)
        date_match == re_search(DatePrefix, IsoDate, <<>>, message_lower)
        delivery_match == re_search(DeliveryPrefix, IsoDate, <<>>, message_lower)
        item_index == re_search(ItemPrefix, ItemIndexGroup,
                              ItemMiddle \o ItemValueGroup, message_lower)
        item_value == re_search(ItemPrefix \o ItemIndexGroup \o ItemMiddle,
                              ItemValueGroup, <<>>, message_lower)
    IN  (IF customer_match.found
         THEN <<[key |-> "customer", value |-> strip(customer_match.group)]>>
         ELSE <<>>)
        \o (IF date_match.found
            THEN <<[key |-> "transaction_date", value |-> strip(date_match.group)]>>
            ELSE <<>>)
        \o (IF delivery_match.found
            THEN <<[key |-> "delivery_date", value |-> strip(delivery_match.group)]>>
            ELSE <<>>)
        \o (IF item_index.found
            THEN <<[key |-> "_item_modify",
                    value |-> [index |-> int(item_index.group) - 1,
                               field |-> "qty",
                               value |-> item_value.group]]>>   \* float() of it
            ELSE <<>>)

\* Lines 138-180: the keyword tests come first, in this order; the
\* modifications count only when no keyword occurs in the message.
Classify(message_lower, modifications) ==
    IF \E keyword \in ConfirmKeywords : Occurs(keyword, message_lower)
    THEN [action |-> "confirm", modifications |-> <<>>]
    ELSE IF \E keyword \in CancelKeywords : Occurs(keyword, message_lower)
    THEN [action |-> "cancel", modifications |-> <<>>]
    ELSE IF \E keyword \in ShowKeywords : Occurs(keyword, message_lower)
    THEN [action |-> "show_data", modifications |-> <<>>]
    ELSE IF modifications # <<>>
    THEN [action |-> "modify", modifications |-> modifications]
    ELSE [action |-> "unknown", modifications |-> <<>>]

\* Lines 129-180.
_parse_user_intent(user_message) ==
    Classify(strip(lower(user_message)), Modifications(strip(lower(user_message))))

----------------------------------------------------------------------------
(* PDF sales order sessions (api/doctypes/pdf_sales_order_handler.py).     *)
(* Every endpoint call makes a new PDFSalesOrderHandler, so the in-memory  *)
(* session_cache of the instance is empty when _get_from_cache falls back  *)
(* to it: a session is what frappe.cache() holds under its id.  The cache  *)
(* is taken to answer every get, set and delete.                           *)

\* Session ids; the chat passes the conversation id as the session id
\* (pdf_chat_integration.py line 38).
Ids == {"conv-1"}

\* The sales order data the extraction gives for the uploaded PDF.
Extracted ==
    [customer |-> <<"a", "c", "m", "e">>,
     transaction_date |-> <<"2", "0", "2", "4", "-", "0", "1", "-", "0", "1">>,
     delivery_date |-> <<"2", "0", "2", "4", "-", "0", "1", "-", "3", "1">>,
     items |-> <<[qty |-> <<"1", "0">>]>>]

\* dict.update(updated_fields) on the extracted data.
RECURSIVE Updated(_, _)
Updated(data, fields) ==
    IF fields = <<>> THEN data
    ELSE LET f == Head(fields)
         IN  Updated(CASE f.key = "customer" -> [data EXCEPT !.customer = f.value]
                       [] f.key = "transaction_date" ->
                             [data EXCEPT !.transaction_date = f.value]
                       [] f.key = "delivery_date" ->
                             [data EXCEPT !.delivery_date = f.value]
                       [] f.key = "items" -> [data EXCEPT !.items = f.value]
                       [] OTHER -> data,
                     Tail(fields))

\* The state the PDF calls read and write.
World == [cache |-> cache, context |-> context, orders |-> orders,
          clock |-> clock]

\* A call's effect: the world it leaves and what it returns.
Effect(w, result) == [w |-> w, result |-> result]

\* Lines 482-493: the cached session, or None.
_get_from_cache(w, session_id) == w.cache[session_id]

\* Lines 473-480.
_save_to_cache(w, session_id, data) == [w EXCEPT !.cache[session_id] = data]

\* Lines 35-108: process_pdf with a session id, when the extraction
\* succeeds or fails.
process_pdf(w, session_id, extraction) ==
    IF extraction # "success"
    THEN Effect(w, [handler |-> "process_pdf", status |-> "error",
                    session_id |-> session_id])
    ELSE Effect([_save_to_cache(w, session_id,
                                [extracted_data |-> Extracted,
                                 timestamp |-> w.clock + 1,
                                 status |-> "pending_confirmation"])
                 EXCEPT !.clock = @ + 1],
                [handler |-> "process_pdf", status |-> "success",
                 session_id |-> session_id, extracted_data |-> Extracted,
                 requires_confirmation |-> TRUE])

\* Lines 126-136: what confirm_and_create_order does with the session
\* data it read.
Verdict(session_data) ==
    IF session_data = None THEN "not found or expired"
    ELSE IF session_data.status = "completed" THEN "already been completed"
    ELSE "create"

\* A confirm_and_create_order on this session data has already returned
\* success (for the record of the orders; the code keeps no such thing).
AlreadyConfirmed(w, session_id, session_data) ==
    \E n \in DOMAIN w.orders :
        /\ w.orders[n].session = session_id
        /\ w.orders[n].timestamp = session_data.timestamp
        /\ w.orders[n].returned

\* Line 147: the sales order create_document inserts.  found, late and
\* returned are the record of how it came about: the session status the
\* call had read, whether a confirmation of the session had returned
\* success before the call read it, and whether the call has returned.
SalesOrder(w, session_id, session_data) ==
    [session |-> session_id, timestamp |-> session_data.timestamp,
     found |-> session_data.status,
     late |-> AlreadyConfirmed(w, session_id, session_data),
     returned |-> FALSE]

\* Lines 151-154: session_data after the order was created.
Completed(session_data, name) ==
    [extracted_data |-> session_data.extracted_data,
     timestamp |-> session_data.timestamp,
     status |-> "completed", sales_order_name |-> name]

ConfirmError(session_id, message) ==
    [handler |-> "confirm_and_create_order", status |-> "error",
     message |-> message, session_id |-> session_id]

\* Lines 156-165.
ConfirmSuccess(session_id, name) ==
    [handler |-> "confirm_and_create_order", status |-> "success",
     sales_order_name |-> name, session_id |-> session_id]

\* Lines 149-154 after create_document succeeded: the order is there, the
\* session is saved as completed.
Created(w, session_id, session_data) ==
    Effect([_save_to_cache(w, session_id,
                           Completed(session_data, Len(w.orders) + 1))
            EXCEPT !.orders =
                Append(@, [SalesOrder(w, session_id, session_data)
                           EXCEPT !.returned = TRUE])],
           ConfirmSuccess(session_id, Len(w.orders) + 1))

\* Lines 110-180: confirm_and_create_order run without interruption, when
\* create_document answers with `creation`.
confirm_and_create_order(w, session_id, creation) ==
    IF Verdict(_get_from_cache(w, session_id)) # "create"
    THEN Effect(w, ConfirmError(session_id,
                                Verdict(_get_from_cache(w, session_id))))
    ELSE IF creation # "success"
    THEN Effect(w, ConfirmError(session_id, "creation failed"))
    ELSE Created(w, session_id, _get_from_cache(w, session_id))

\* Lines 182-226.
update_extracted_data(w, session_id, updated_fields) ==
    IF _get_from_cache(w, session_id) = None
    THEN Effect(w, [handler |-> "update_extracted_data", status |-> "error",
                    message |-> "not found or expired"])
    ELSE Effect(_save_to_cache(w, session_id,
                    [_get_from_cache(w, session_id) EXCEPT
                        !.extracted_data = Updated(@, updated_fields)]),
                [handler |-> "update_extracted_data", status |-> "success",
                 extracted_data |->
                    Updated(_get_from_cache(w, session_id).extracted_data,
                            updated_fields)])

\* Lines 228-261.
get_session_data(w, session_id) ==
    IF _get_from_cache(w, session_id) = None
    THEN Effect(w, [handler |-> "get_session_data", status |-> "error",
                    message |-> "not found or expired"])
    ELSE Effect(w, [handler |-> "get_session_data", status |-> "success",
                    session_id |-> session_id,
                    extracted_data |->
                        _get_from_cache(w, session_id).extracted_data,
                    session_status |-> _get_from_cache(w, session_id).status])

\* Lines 283-284.
Cancelled(session_data) == [session_data EXCEPT !.status = "cancelled"]

\* Lines 263-298.
cancel_session(w, session_id) ==
    IF _get_from_cache(w, session_id) = None
    THEN Effect(w, [handler |-> "cancel_session", status |-> "error",
                    message |-> "not found"])
    ELSE Effect(_save_to_cache(w, session_id,
                               Cancelled(_get_from_cache(w, session_id))),
                [handler |-> "cancel_session", status |-> "success",
                 session_id |-> session_id])

----------------------------------------------------------------------------
(* The chat integration (api/pdf_chat_integration.py).                     *)

\* The phrase of the help text (line 365) up to the customer's name.
ChangeCustomerTo ==
    <<"c", "h", "a", "n", "g", "e", " ", "c", "u", "s", "t", "o", "m", "e",
      "r", " ", "t", "o", " ">>

\* Customer names a user asks for.
CustomerNames ==
    {<<"C", "U", "S", "T", "-", "0", "0", "1">>,
     <<"N", "o", "v", "a", " ", "T", "r", "a", "d", "e", "r", "s">>,
     <<"D", "a", "t", "a", " ", "C", "o", "r", "p">>,
     <<"Y", "e", "s", " ", "B", "a", "n", "k">>}

ChangeCustomer(name) == ChangeCustomerTo \o name

SayConfirm ==
    <<"c", "o", "n", "f", "i", "r", "m">>
SayYesCreate ==
    <<"y", "e", "s", ",", " ", "c", "r", "e", "a", "t", "e", " ", "t", "h",
      "e", " ", "o", "r", "d", "e", "r">>
SayCancel ==
    <<"c", "a", "n", "c", "e", "l", " ", "t", "h", "i", "s">>
SayShow ==
    <<"s", "h", "o", "w", " ", "m", "e", " ", "t", "h", "e", " ", "d", "a",
      "t", "a">>
SayRandom ==
    <<"r", "a", "n", "d", "o", "m", " ", "m", "e", "s", "s", "a", "g", "e">>
SayChangeDate ==
    <<"c", "h", "a", "n", "g", "e", " ", "d", "a", "t", "e", " ", "t", "o",
      " ", "2", "0", "2", "4", "-", "0", "1", "-", "1", "5">>
SayChangeDelivery ==
    <<"c", "h", "a", "n", "g", "e", " ", "d", "e", "l", "i", "v", "e", "r",
      "y", " ", "d", "a", "t", "e", " ", "t", "o", " ", "2", "0", "2", "4",
      "-", "0", "2", "-", "0", "1">>
SayChangeQuantity ==
    <<"c", "h", "a", "n", "g", "e", " ", "i", "t", "e", "m", " ", "1", " ",
      "q", "u", "a", "n", "t", "i", "t", "y", " ", "t", "o", " ", "2", "0">>

\* The messages of the test (test_pdf_sales_order.py lines 190-197) and
\* the phrases of the help text (lines 365-368).
Messages ==
    {SayConfirm, SayYesCreate, SayCancel, SayShow, SayRandom, SayChangeDate,
     SayChangeDelivery, SayChangeQuantity}
    \cup {ChangeCustomer(name) : name \in CustomerNames}

\* _parse_user_intent on the messages, as a table.
Intents == [user_message \in Messages |-> _parse_user_intent(user_message)]

\* Lines 378-404: the context of a conversation in the cache.
_save_conversation_context(w, conversation_id, ctx) ==
    [w EXCEPT !.context[conversation_id] = ctx]
_get_conversation_context(w, conversation_id) == w.context[conversation_id]

\* The context left in the cache (faulty variant).
_clear_conversation_context_Kept(w, conversation_id) == w

_clear_conversation_context(w, conversation_id) ==
    [w EXCEPT !.context[conversation_id] = None]

\* What the chat returns.  said and action are the message it answers
\* and the action the message was parsed to.
ChatReply(handler, conversation_id, status, requires_action, outcome) ==
    [handler |-> handler, conversation_id |-> conversation_id,
     status |-> status, requires_action |-> requires_action,
     outcome |-> outcome, said |-> <<>>, action |-> ""]

\* Lines 40-65 of handle_pdf_upload, for the result of process_pdf.
Uploaded(processed, conversation_id) ==
    IF processed.result.status = "success"
    THEN Effect(_save_conversation_context(processed.w, conversation_id,
                    [session_id |-> processed.result.session_id,
                     status |-> "awaiting_confirmation",
                     extracted_data |-> processed.result.extracted_data]),
                ChatReply("handle_pdf_upload", conversation_id, "success",
                          TRUE, "confirmation"))
    ELSE Effect(processed.w,
                ChatReply("handle_pdf_upload", conversation_id, "error",
                          FALSE, "failed to process"))

\* Lines 22-73.
handle_pdf_upload(w, conversation_id, extraction) ==
    Uploaded(process_pdf(w, conversation_id, extraction), conversation_id)

\* Lines 186-208 of _handle_confirmation, for the result of
\* confirm_and_create_order.
Confirmed(confirmed, conversation_id) ==
    IF confirmed.result.status = "success"
    THEN Effect(_clear_conversation_context(confirmed.w, conversation_id),
                ChatReply("handle_user_response", conversation_id, "success",
                          FALSE, "completed"))
    ELSE Effect(confirmed.w,
                ChatReply("handle_user_response", conversation_id, "error",
                          TRUE, "failed to create"))

\* Lines 210-220: _handle_cancellation, for the result of cancel_session.
Called_off(cancelled, conversation_id) ==
    Effect(_clear_conversation_context(cancelled.w, conversation_id),
           ChatReply("handle_user_response", conversation_id, "success",
                     FALSE, "cancelled"))

\* Lines 232-242: the modifications with the item change turned into the
\* items list, for the result of get_session_data.
RECURSIVE WithItems(_, _)
WithItems(modifications, session) ==
    IF modifications = <<>> THEN <<>>
    ELSE LET mod == Head(modifications)
         IN  IF mod.key # "_item_modify"
             THEN <<mod>> \o WithItems(Tail(modifications), session)
             ELSE WithItems(Tail(modifications), session)
                  \o (IF /\ session.status = "success"
                         /\ 0 <= mod.value.index
                         /\ mod.value.index < Len(session.extracted_data.items)
                      THEN <<[key |-> "items",
                              value |-> [session.extracted_data.items EXCEPT
                                            ![mod.value.index + 1].qty =
                                                mod.value.value]]>>
                      ELSE <<>>)

\* Lines 247-272 of _handle_modification, for the result of
\* update_extracted_data.
Modified(updated, conversation_id) ==
    IF updated.result.status = "success"
    THEN Effect(_save_conversation_context(updated.w, conversation_id,
                    [_get_conversation_context(updated.w, conversation_id)
                     EXCEPT !.extracted_data = updated.result.extracted_data]),
                ChatReply("handle_user_response", conversation_id, "success",
                          TRUE, "updated"))
    ELSE Effect(updated.w,
                ChatReply("handle_user_response", conversation_id, "error",
                          TRUE, "failed to update"))

\* Lines 97-119: the branch of handle_user_response for the parsed intent.
Dispatch(w, conversation_id, session_id, intent, creation) ==
    CASE intent.action = "confirm" ->
            Confirmed(confirm_and_create_order(w, session_id, creation),
                      conversation_id)
      [] intent.action = "cancel" ->
            Called_off(cancel_session(w, session_id), conversation_id)
      [] intent.action = "modify" ->
            Modified(update_extracted_data(w, session_id,
                        WithItems(intent.modifications,
                                  get_session_data(w, session_id).result)),
                     conversation_id)
      [] intent.action = "show_data" ->
            Effect(w, ChatReply("handle_user_response", conversation_id,
                                "success", TRUE, "data"))
      [] OTHER ->
            Effect(w, ChatReply("handle_user_response", conversation_id,
                                "info", TRUE, "help"))

\* The reply with the message it answers and the action it was parsed to.
Answering(effect, user_message, action) ==
    [effect EXCEPT !.result.said = user_message, !.result.action = action]

\* Lines 75-127.
handle_user_response(w, conversation_id, user_message, creation) ==
    IF _get_conversation_context(w, conversation_id) = None
    THEN Answering(Effect(w, ChatReply("handle_user_response", conversation_id,
                                       "error", FALSE, "no active session")),
                   user_message, "")
    ELSE Answering(Dispatch(w, conversation_id,
                            _get_conversation_context(w, conversation_id).session_id,
                            Intents[user_message], creation),
                   user_message, Intents[user_message].action)

----------------------------------------------------------------------------
(* The PDF calls as state machines.  PdfSpec is the handler behind its     *)
(* endpoints: every call runs as one step, except confirm_and_create_order *)
(* which reads the session, creates the order and saves the session in     *)
(* three steps that concurrent callers interleave.  ChatSpec is the chat   *)
(* on top of it, its calls and the endpoint calls each running as one      *)
(* step.                                                                   *)

Callers == 1..MaxCallers
Creations == {"success", "error"}
Extractions == {"success", "error"}

IdleCaller == [pc |-> "idle"]

\* The world after a call, and what it returned.
Commit(effect) ==
    /\ cache' = effect.w.cache
    /\ context' = effect.w.context
    /\ orders' = effect.w.orders
    /\ clock' = effect.w.clock
    /\ reply' = effect.result
    /\ UNCHANGED <<today, store, searchVars, workers, callers>>

\* create_document creates at most MaxOrders orders.
CanCreate(creation) == creation = "success" => Len(orders) < MaxOrders

\* process_pdf_file(file_url, session_id)
ProcessPdf ==
    /\ clock < MaxUploads
    /\ \E session_id \in Ids, extraction \in Extractions :
          Commit(process_pdf(World, session_id, extraction))

\* confirm_and_create(session_id), lines 122-136: caller c reads the
\* session and returns an error or goes on.
ConfirmRead(c) ==
    /\ callers[c].pc = "idle"
    /\ \E session_id \in Ids :
          IF Verdict(_get_from_cache(World, session_id)) # "create"
          THEN /\ reply' = ConfirmError(session_id,
                              Verdict(_get_from_cache(World, session_id)))
               /\ UNCHANGED callers
          ELSE /\ reply' = NoRet
               /\ callers' = [callers EXCEPT ![c] =
                     [pc |-> "read", session_id |-> session_id,
                      session_data |-> _get_from_cache(World, session_id),
                      name |-> 0,
                      order |-> SalesOrder(World, session_id,
                                           _get_from_cache(World, session_id))]]
    /\ UNCHANGED <<today, store, searchVars, workers, cache, context, orders,
                   clock>>

\* Lines 139-147 and 166-171: caller c calls create_document.
ConfirmCreate(c) ==
    /\ callers[c].pc = "read"
    /\ \E creation \in Creations :
          /\ CanCreate(creation)
          /\ IF creation = "success"
             THEN /\ orders' = Append(orders, callers[c].order)
                  /\ callers' = [callers EXCEPT ![c].pc = "created",
                                                ![c].name = Len(orders) + 1]
                  /\ reply' = NoRet
             ELSE /\ reply' = ConfirmError(callers[c].session_id, "creation failed")
                  /\ callers' = [callers EXCEPT ![c] = IdleCaller]
                  /\ UNCHANGED orders
    /\ UNCHANGED <<today, store, searchVars, workers, cache, context, clock>>

\* Lines 149-165: caller c saves the session as completed and returns.
ConfirmSave(c) ==
    /\ callers[c].pc = "created"
    /\ cache' = [cache EXCEPT ![callers[c].session_id] =
                    Completed(callers[c].session_data, callers[c].name)]
    /\ orders' = [orders EXCEPT ![callers[c].name].returned = TRUE]
    /\ reply' = ConfirmSuccess(callers[c].session_id, callers[c].name)
    /\ callers' = [callers EXCEPT ![c] = IdleCaller]
    /\ UNCHANGED <<today, store, searchVars, workers, context, clock>>

\* confirm_and_create(session_id), run without interruption.
ConfirmAndCreate ==
    \E session_id \in Ids, creation \in Creations :
        /\ CanCreate(creation)
        /\ Commit(confirm_and_create_order(World, session_id, creation))

\* update_session_data(session_id, updated_fields)
UpdateExtractedData ==
    \E session_id \in Ids :
        Commit(update_extracted_data(World, session_id,
                  <<[key |-> "customer", value |-> <<"c", "u", "s", "t", "-", "0", "0", "1">>]>>))

\* get_session_info(session_id)
GetSessionData ==
    \E session_id \in Ids : Commit(get_session_data(World, session_id))

\* cancel_pdf_session(session_id)
CancelSession ==
    \E session_id \in Ids : Commit(cancel_session(World, session_id))

\* handle_pdf_in_chat(file_url, conversation_id)
HandlePdfUpload ==
    /\ clock < MaxUploads
    /\ \E conversation_id \in Ids, extraction \in Extractions :
          Commit(handle_pdf_upload(World, conversation_id, extraction))

\* handle_pdf_response(conversation_id, user_message)
HandleUserResponse ==
    \E conversation_id \in Ids, user_message \in Messages, creation \in Creations :
        /\ CanCreate(creation)
        /\ Commit(handle_user_response(World, conversation_id, user_message,
                                       creation))

PdfInit ==
    /\ today \in {FirstDay}
    /\ store = <<>>
    /\ call = NoCall
    /\ pc = "ready"
    /\ plan = NoPlan
    /\ ret = NoRet
    /\ via = ""
    /\ db = NoOutcome
    /\ resp = NoRet
    /\ NoWorkers
    /\ cache = [id \in Ids |-> None]
    /\ context = [id \in Ids |-> None]
    /\ orders = <<>>
    /\ callers = [c \in Callers |-> IdleCaller]
    /\ reply = NoRet
    /\ clock = 0

PdfNext ==
    \/ ProcessPdf
    \/ \E c \in Callers : ConfirmRead(c) \/ ConfirmCreate(c) \/ ConfirmSave(c)
    \/ UpdateExtractedData
    \/ GetSessionData
    \/ CancelSession

PdfSpec == PdfInit /\ [][PdfNext]_vars

ChatNext ==
    \/ HandlePdfUpload
    \/ HandleUserResponse
    \/ ProcessPdf
    \/ ConfirmAndCreate
    \/ UpdateExtractedData
    \/ GetSessionData
    \/ CancelSession

ChatSpec == PdfInit /\ [][ChatNext]_vars



----------------------------------------------------------------------------
(* Vocabulary of the properties.                                           *)

\* dynamic_search was called and has returned.
Done == pc = "done" /\ ret # NoRet

\* The handler left its loop without an exception and handed a statement
\* to the store.
Built == Done /\ ~plan.raised /\ Len(store) = 1

DateFields == get_date_fields(call.doctype)
IsPlain(f) == f \notin DateFields
IsDateOnly(f) == f \in DateFields \ DateTimeFields
IsDateTime(f) == f \in DateFields \cap DateTimeFields

IsScalar(v) == v.k \in {"str", "num", "bool"}

\* What the loop did for the entry with this key.
EmitsOf(key) == SelectSeq(plan.emits, LAMBDA em : em.key = key)

BindNames(em) == {em.binds[i][1] : i \in DOMAIN em.binds}

\* text holds sub as a run of consecutive tokens.
Contains(text, sub) ==
    \E k \in 0..(Len(text) - Len(sub)) : SubSeq(text, k + 1, k + Len(sub)) = sub

RangeKeywords == {"today", "yesterday", "tomorrow"}

\* The day a keyword denotes when the clock shows `now`.
Denoted(kw, now) ==
    CASE kw = "today" -> now
      [] kw = "yesterday" -> now - 1
      [] kw = "tomorrow" -> now + 1
      [] kw = "this week" -> now - (now % DaysPerWeek)
      [] kw = "last week" -> (now - DaysPerWeek) - ((now - DaysPerWeek) % DaysPerWeek)
      [] kw = "this month" -> now - (now % DaysPerMonth)
      [] kw = "7 days ago" -> now - 7
      [] kw = "2 weeks ago" -> now - 2 * DaysPerWeek
      [] kw = "1 month ago" -> now - DaysPerMonth
      [] OTHER -> now

SymbolicKeywords ==
    {"today", "yesterday", "tomorrow", "this week", "last week", "this month",
     "7 days ago", "2 weeks ago", "1 month ago"}

----------------------------------------------------------------------------
\* C1: for every filter entry whose value is a bare, non-empty scalar on a
\* plain field (not in the handler's date-field set), dynamic_search emits
\* exactly one predicate `field = :p` and binds exactly one parameter for
\* it, and in the bound-parameter map of the statement that parameter holds
\* the input value verbatim, whatever other entries the filter spec has.
C1_PlainEqualityVerbatim ==
    Built =>
      \A i \in DOMAIN call.filters :
        LET e == call.filters[i]
            f == field_mapping(e.key)
            ems == EmitsOf(e.key)
        IN  (IsScalar(e.value) /\ ~IsNoneOrEmpty(e.value) /\ IsPlain(f)) =>
              /\ Len(ems) = 1
              /\ Len(ems[1].conds) = 1
              /\ Len(ems[1].binds) = 1
              /\ ems[1].conds[1] = <<Col(f), Sql(" = "), Ph(ems[1].binds[1][1])>>
              /\ store[1].values[ems[1].binds[1][1]] = e.value

----------------------------------------------------------------------------
\* C2: for a bare value that is the keyword today, yesterday or tomorrow
\* (any letter case, surrounding whitespace ignored) on a datetime field
\* (creation, modified), dynamic_search emits no point equality but the one
\* condition `field >= :field_start AND field < :field_end`, and binds two
\* parameters: start is 00:00:00 of the denoted day, end is exactly 24 hours
\* later.  The condition is part of the statement handed to the store, whose
\* parameter map holds both names, 24 hours apart, with the start of the
\* denoted day unless a later entry on the same field bound them again.
C2_KeywordDayRange ==
    Built =>
      \A i \in DOMAIN call.filters :
        LET e == call.filters[i]
            f == field_mapping(e.key)
            ems == EmitsOf(e.key)
            kw == StripLower(PyStr(e.value))
            start == f \o "_start"
            end == f \o "_end"
            range == <<Col(f), Sql(" >= "), Ph(start), Sql(" AND "),
                       Col(f), Sql(" < "), Ph(end)>>
            IsCase(x) == /\ x.value.k = "str"
                         /\ StripLower(PyStr(x.value)) \in RangeKeywords
                         /\ field_mapping(x.key) = f
        IN  (e.value.k = "str" /\ kw \in RangeKeywords /\ IsDateTime(f)) =>
              /\ Len(ems) = 1
              /\ ems[1].conds = <<range>>
              /\ Len(ems[1].binds) = 2
              /\ ems[1].binds[1] = <<start, Ts(Denoted(kw, today), 0)>>
              /\ ems[1].binds[2][1] = end
              /\ ems[1].binds[2][2].k = "ts"
              /\ Minutes(ems[1].binds[2][2]) - Minutes(ems[1].binds[1][2])
                    = 24 * 60
              /\ Contains(store[1].query, range)
              /\ {start, end} \subseteq DOMAIN store[1].values
              /\ store[1].values[start].k = "ts"
              /\ store[1].values[end].k = "ts"
              /\ Minutes(store[1].values[end]) - Minutes(store[1].values[start])
                    = 24 * 60
              /\ (\A j \in DOMAIN call.filters : j > i => ~IsCase(call.filters[j]))
                    => store[1].values[start] = Ts(Denoted(kw, today), 0)

\* A successful search with {"creation": " Today "}.
C2_Witness ==
    /\ Built
    /\ ret.status = "success"
    /\ call.filters = <<Entry("creation", Str(" Today "))>>
    /\ store[1].values["creation_start"] = Ts(today, 0)

----------------------------------------------------------------------------
(* The record store's reading of a comparison: DATE(x) is the calendar day *)
(* of x, a datetime compares by day and time of day, and a string that is  *)
(* no date makes the comparison NULL (not true).                           *)

NullStamp == [day |-> 0 - 1, tod |-> 0]

\* The point in time a bound parameter denotes.
Stamp(v) ==
    CASE v.k = "date" -> [day |-> v.day, tod |-> 0]
      [] v.k = "ts" -> [day |-> v.day, tod |-> v.tod]
      [] v.k = "str" /\ v.s = "2025-08-31 10:30:00" -> [day |-> 31, tod |-> 630]
      [] v.k = "str" /\ v.s = "2025-08-31 23:59:00" -> [day |-> 31, tod |-> 1439]
      [] OTHER -> NullStamp

\* Whether the comparison `cond` is true of a row whose column holds c when
\* the parameter is bound to v.
Holds(cond, c, v) ==
    LET colWrapped == cond[1] = Sql("DATE(")
        relTok == cond[IF colWrapped THEN 3 ELSE 2].s
        parWrapped == relTok \in {") >= DATE(", ") <= DATE(", ") = DATE(",
                                  " >= DATE(", " <= DATE(", " = DATE("}
        cv == IF colWrapped THEN c.day * MinutesPerDay ELSE Minutes(c)
        pv == IF parWrapped THEN Stamp(v).day * MinutesPerDay
              ELSE Minutes(Stamp(v))
    IN  /\ Stamp(v) # NullStamp
        /\ CASE relTok \in {") >= DATE(", " >= DATE(", " >= ", ") >= "} -> cv >= pv
             [] relTok \in {") <= DATE(", " <= DATE(", " <= ", ") <= "} -> cv <= pv
             [] OTHER -> cv = pv

\* Column values: the days next to the operands of the model, at midnight,
\* mid-morning and the last minute of the day.
SampleStamps ==
    [day : {1, 2, 30, 31, 32} \cup Days, tod : {0, 630, 1439}]

\* The inputs of the vocabulary that differ from arg only in time of day.
SameDayInputs(arg) ==
    IF arg \in {Str("2025-08-31 10:30:00"), Str("2025-08-31 23:59:00")}
    THEN {Str("2025-08-31 10:30:00"), Str("2025-08-31 23:59:00")}
    ELSE {arg}

\* What the loop emits for the same key and operator with another operand.
Recompiled(em, arg2) ==
    CompileEntry(NewAcc,
                 Entry(em.key, IF em.op = "" THEN arg2
                               ELSE Dict(<<OpTerm(em.op, arg2)>>)),
                 DateFields, today).emits[1]

SqlOp(operator) ==
    CASE operator = "$gte" -> ">="
      [] operator = "$lte" -> "<="
      [] OTHER -> "="

----------------------------------------------------------------------------
\* C3: for every filter on a date-only field (in the handler's date-field
\* set, not creation or modified), each emitted comparison (bare equality,
\* $gte, $lte) is `DATE(field) <op> DATE(:p)`: column and parameter are both
\* wrapped in DATE().  The outcome of the comparison is the same for two
\* column values that differ only in time of day, and the same for two
\* inputs that differ only in time of day.
C3_DateOnlyTruncated ==
    Built =>
      \A n \in DOMAIN plan.emits :
        LET em == plan.emits[n]
        IN  (IsDateOnly(em.field) /\ em.op \in {"", "$gte", "$lte"}
             /\ em.outcome = "emitted") =>
              /\ Len(em.conds) = 1
              /\ Len(em.binds) = 1
              /\ em.conds[1] = <<Sql("DATE("), Col(em.field),
                                 Sql(") " \o SqlOp(em.op) \o " DATE("),
                                 Ph(em.binds[1][1]), Sql(")")>>
              /\ Contains(store[1].query, em.conds[1])
              /\ \A c1, c2 \in SampleStamps :
                    c1.day = c2.day =>
                      Holds(em.conds[1], c1, em.binds[1][2])
                        = Holds(em.conds[1], c2, em.binds[1][2])
              /\ \A arg2 \in SameDayInputs(em.arg) :
                    /\ Recompiled(em, arg2).conds = em.conds
                    /\ \A c \in SampleStamps :
                          Holds(em.conds[1], c, em.binds[1][2])
                            = Holds(Recompiled(em, arg2).conds[1], c,
                                    Recompiled(em, arg2).binds[1][2])

\* A successful Sales Order search for August: $gte a date, $lte a timestamp
\* of the last day, which is bound as that day.
C3_Witness ==
    /\ Built
    /\ ret.status = "success"
    /\ call.doctype = "Sales Order"
    /\ call.filters =
         <<Entry("transaction_date",
                 Dict(<<OpTerm("$gte", Str("01-08-2025")),
                        OpTerm("$lte", Str("2025-08-31 23:59:00"))>>))>>
    /\ store[1].values["transaction_date_$lte"] = DateStr(31, "iso")

----------------------------------------------------------------------------
\* C4: for $gte and $lte on a datetime field (creation, modified),
\* dynamic_search compares the column directly with the parameter (no
\* DATE() on either side), and a symbolic keyword operand is accepted on
\* either bound and bound as a full timestamp, the start of the day it
\* denotes, not as a date-only string.
C4_DateTimeBoundsTimestamp ==
    Built =>
      \A n \in DOMAIN plan.emits :
        LET em == plan.emits[n]
        IN  (IsDateTime(em.field) /\ em.op \in {"$gte", "$lte"}) =>
              /\ em.outcome = "emitted" =>
                    em.conds = << <<Col(em.field),
                                    Sql(" " \o SqlOp(em.op) \o " "),
                                    Ph(em.binds[1][1])>> >>
              /\ (em.arg.k = "str"
                  /\ StripLower(PyStr(em.arg)) \in SymbolicKeywords) =>
                    /\ em.outcome = "emitted"
                    /\ em.binds[1][2]
                         = Ts(Denoted(StripLower(PyStr(em.arg)), today), 0)

----------------------------------------------------------------------------
\* C5: for every $in filter with a list of N elements, dynamic_search
\* produces exactly N placeholders bound to N distinctly named parameters,
\* one per element, in order, and none of their names is a parameter name
\* of another condition of the same plan or the reserved name limit.
PhCount(cond) == Cardinality({i \in DOMAIN cond : cond[i].t = "ph"})

C5_InParametersOwnNames ==
    Built =>
      \A n \in DOMAIN plan.emits :
        LET em == plan.emits[n]
        IN  (em.op = "$in" /\ em.arg.k = "list") =>
              /\ Len(em.binds) = Len(em.arg.items)
              /\ \A i \in DOMAIN em.conds : PhCount(em.conds[i]) = Len(em.arg.items)
              /\ Cardinality(BindNames(em)) = Len(em.arg.items)
              /\ \A i \in DOMAIN em.binds : em.binds[i][2] = em.arg.items[i]
              /\ "limit" \notin BindNames(em)
              /\ \A m \in DOMAIN plan.emits :
                    m # n => BindNames(plan.emits[m]) \cap BindNames(em) = {}

----------------------------------------------------------------------------
\* C6: when an operator map carries several operators for one field, each
\* parameter-carrying operator ($like, $gte, $lte, $in) emits its own
\* condition, bound to its own parameter, whose name differs from the
\* parameter of every other operator of the map, and all emitted conditions
\* are joined with AND in the WHERE clause.
ParamOps == {"$like", "$gte", "$lte", "$in"}

RECURSIVE AllConds(_)
AllConds(emits) ==
    IF emits = <<>> THEN <<>> ELSE Head(emits).conds \o AllConds(Tail(emits))

RECURSIVE AndJoined(_)
AndJoined(conds) ==
    IF conds = <<>> THEN <<>>
    ELSE IF Len(conds) = 1 THEN conds[1]
    ELSE conds[1] \o <<Sql(" AND ")>> \o AndJoined(Tail(conds))

C6_OperatorsOwnParameters ==
    Built =>
      \A i \in DOMAIN call.filters :
        LET e == call.filters[i]
            ems == EmitsOf(e.key)
        IN  (IsDict(e.value) /\ Len(e.value.ops) >= 2) =>
              /\ Len(ems) = Len(e.value.ops)
              /\ \A j \in DOMAIN ems :
                    ems[j].op \in ParamOps =>
                      /\ Len(ems[j].conds) = 1
                      /\ ems[j].binds # <<>>
                      /\ Placeholders(ems[j].conds[1]) = BindNames(ems[j])
                      /\ \A k \in DOMAIN ems :
                            k # j => BindNames(ems[k]) \cap BindNames(ems[j]) = {}
              /\ AllConds(plan.emits) # <<>> =>
                    Contains(store[1].query,
                             <<Sql(" WHERE ")>> \o AndJoined(AllConds(plan.emits))
                             \o <<Sql(" ORDER BY ")>>)

----------------------------------------------------------------------------
\* C7: the statement text dynamic_search builds never contains a filter
\* value (bare value, operator operand or $in element): no token of the
\* text other than a placeholder spells a value of the filter spec, and
\* every value an entry binds is named by a placeholder of its condition.
RECURSIVE SeqUnion(_)
SeqUnion(sets) == IF sets = <<>> THEN {} ELSE Head(sets) \cup SeqUnion(Tail(sets))

\* The strings a value spells: itself, or its elements.
Spelled(v) ==
    CASE v.k = "list" -> {PyStr(v.items[i]) : i \in DOMAIN v.items} \cup {PyStr(v)}
      [] v.k = "none" -> {}
      [] OTHER -> {PyStr(v)}

ValueStrings(filters) ==
    SeqUnion([i \in DOMAIN filters |->
        IF IsDict(filters[i].value)
        THEN SeqUnion([j \in DOMAIN filters[i].value.ops |->
                          Spelled(filters[i].value.ops[j].arg)])
        ELSE Spelled(filters[i].value)])

C7_NoValueInText ==
    \A n \in DOMAIN store :
      /\ \A i \in DOMAIN store[n].query :
            store[n].query[i].t # "ph" =>
              store[n].query[i].s \notin ValueStrings(call.filters)
      /\ \A m \in DOMAIN plan.emits :
            /\ BindNames(plan.emits[m]) \subseteq Placeholders(store[n].query)
            /\ \A c \in DOMAIN plan.emits[m].conds :
                  \A t \in DOMAIN plan.emits[m].conds[c] :
                     plan.emits[m].conds[c][t].t \in {"sql", "col", "ph"}

\* A successful search with {"territory": "India"}: the value is in the
\* parameter map and the text names it by a placeholder.
C7_Witness ==
    /\ Built
    /\ ret.status = "success"
    /\ call.filters = <<Entry("territory", Str("India"))>>
    /\ store[1].values["territory"] = Str("India")
    /\ Contains(store[1].query, <<Col("territory"), Sql(" = "), Ph("territory")>>)

----------------------------------------------------------------------------
\* C8: in every statement handed to the store, each placeholder of the text
\* (the LIMIT placeholder included) has exactly one entry in the
\* bound-parameter map, and every entry of the map is referenced by a
\* placeholder of the text.
C8_PlaceholdersMatchParameters ==
    \A n \in DOMAIN store :
      /\ Placeholders(store[n].query) = DOMAIN store[n].values
      /\ "limit" \in Placeholders(store[n].query)
      /\ store[n].values["limit"] = Num(call.limit)

\* A statement with a $like and a $in condition: four parameters.
C8_Witness ==
    /\ Built
    /\ ret.status = "success"
    /\ DOMAIN store[1].values
         = {"territory_$like", "territory_0", "territory_1", "limit"}

----------------------------------------------------------------------------
\* C9: a filter key that is neither in the alias table nor a field of the
\* entity makes dynamic_search return an error without executing a query;
\* the key is never used as a column reference in a statement.
AliasKeys == {"created", "created_date", "date", "order_date"}
EntityFields(doctype) == get_search_fields(doctype) \cup get_date_fields(doctype)
Unrecognized(key) == key \notin AliasKeys /\ key \notin EntityFields(call.doctype)

C9_UnknownFieldRejected ==
    Done =>
      /\ (\E i \in DOMAIN call.filters : Unrecognized(call.filters[i].key))
            => (ret.status = "error" /\ store = <<>>)
      /\ \A n \in DOMAIN store : \A i \in DOMAIN store[n].query :
            store[n].query[i].t = "col" => ~Unrecognized(store[n].query[i].s)

----------------------------------------------------------------------------
\* C10: an operator symbol outside {$like, $is_null, $is_not_null, $gte,
\* $lte, $in} (a case variant such as $Like included) makes dynamic_search
\* reject the filter with an error; the query never runs without that
\* condition.
SupportedOperators == {"$like", "$is_null", "$is_not_null", "$gte", "$lte", "$in"}

HasUnknownOperator(filters) ==
    \E i \in DOMAIN filters :
      /\ IsDict(filters[i].value)
      /\ \E j \in DOMAIN filters[i].value.ops :
            filters[i].value.ops[j].op \notin SupportedOperators

C10_UnknownOperatorRejected ==
    (Done /\ HasUnknownOperator(call.filters))
      => (ret.status = "error" /\ store = <<>>)

----------------------------------------------------------------------------
\* C11: dynamic_search never silently drops a filter term: when it reports
\* success, every entry of the filter spec and every operator of an
\* operator map has contributed a condition to the executed statement; the
\* only other outcome of a call is an error result.
RECURSIVE LeafCount(_)
LeafCount(filters) ==
    IF filters = <<>> THEN 0
    ELSE (IF IsDict(Head(filters).value) THEN Len(Head(filters).value.ops) ELSE 1)
         + LeafCount(Tail(filters))

C11_NoSilentDrop ==
    Done =>
      /\ ret.status \in {"success", "error"}
      /\ ret.status = "success" =>
            /\ Len(plan.emits) = LeafCount(call.filters)
            /\ \A n \in DOMAIN plan.emits :
                  /\ plan.emits[n].outcome = "emitted"
                  /\ plan.emits[n].conds # <<>>
                  /\ \A c \in DOMAIN plan.emits[n].conds :
                        Contains(store[1].query, plan.emits[n].conds[c])

----------------------------------------------------------------------------
\* C12: when a value on a date or datetime field is neither a recognized
\* symbolic keyword nor matches any accepted literal date format,
\* dynamic_search ends in an error without a statement; the raw string is
\* never bound into a comparison as if it were a normalized date.
IsKeyword(s) ==
    \/ s \in {"today", "yesterday", "tomorrow", "this week", "thisweek",
              "last week", "lastweek", "this month", "thismonth"}
    \/ /\ HasDaysAgo(s) \/ HasWeeksAgo(s) \/ HasMonthsAgo(s)
       /\ LeadingInt(s) >= 0

\* The strings of the model's vocabulary that one of the formats of lines
\* 257-264 or parse_date reads as a date.
AcceptedLiteral(s) == parse_date(s) >= 0 \/ s \in {"2025/08/15"}

Unparsable(v) ==
    /\ v.k = "str"
    /\ StripLower(v.s) # ""
    /\ ~IsKeyword(StripLower(v.s))
    /\ ~AcceptedLiteral(StripLower(v.s))

C12_UnparsableDateRejected ==
    Done =>
      \A n \in DOMAIN plan.emits :
        (plan.emits[n].field \in DateFields /\ Unparsable(plan.emits[n].arg)) =>
          /\ ret.status = "error"
          /\ store = <<>>
          /\ \A i \in DOMAIN plan.emits[n].binds :
                plan.emits[n].binds[i][2] # Str(StripLower(plan.emits[n].arg.s))

----------------------------------------------------------------------------
\* C13: the order_by string is validated before it goes into the
\* statement: an order_by naming a column outside the entity's known
\* columns, or a direction other than ASC or DESC, makes dynamic_search
\* return an error and no statement reaches the store.
OrderColumn(order_by) ==
    CASE order_by = "modified desc" -> "modified"
      [] order_by = "creation asc" -> "creation"
      [] order_by = "no_such_column desc" -> "no_such_column"
      [] order_by = "modified sideways" -> "modified"
      [] OTHER -> ""

OrderDirection(order_by) ==
    CASE order_by = "modified desc" -> "DESC"
      [] order_by = "creation asc" -> "ASC"
      [] order_by = "no_such_column desc" -> "DESC"
      [] order_by = "modified sideways" -> "SIDEWAYS"
      [] OTHER -> ""

ValidOrderBy(order_by, doctype) ==
    /\ OrderColumn(order_by) \in get_search_fields(doctype) \cup get_date_fields(doctype)
    /\ OrderDirection(order_by) \in {"ASC", "DESC"}

C13_OrderByValidated ==
    Done =>
      /\ ~ValidOrderBy(call.order_by, call.doctype) =>
            (ret.status = "error" /\ store = <<>>)
      /\ \A n \in DOMAIN store :
            \A i \in DOMAIN store[n].query :
               (i > 1 /\ store[n].query[i - 1] = Sql(" ORDER BY ")) =>
                  \E o \in OrderBys :
                     /\ ValidOrderBy(o, call.doctype)
                     /\ store[n].query[i] = Raw(o)

----------------------------------------------------------------------------
\* C14: the limit bound into the statement is clamped to a fixed maximum:
\* for every limit the caller passes (above the maximum, zero and negative
\* values included) the LIMIT parameter of the executed statement does not
\* exceed it.  The maximum is taken as the largest limit the code itself
\* asks for (count_documents, 10000).
C14_LimitClamped ==
    \A n \in DOMAIN store :
      /\ store[n].values["limit"].k = "num"
      /\ store[n].values["limit"].n <= CountLimit

----------------------------------------------------------------------------
\* C15: dynamic_search with an empty filter spec builds the WHERE clause
\* 1=1 with limit as the only bound parameter: the statement selects the
\* entity's records in the requested order up to limit, and on success the
\* call returns every record the store holds, up to limit.
C15_EmptyFilterMatchesAll ==
    (Built /\ call.filters = <<>>) =>
      /\ store[1].query =
           <<Sql("SELECT "), Raw("search_fields"), Sql(" FROM tab"),
             Raw(call.doctype), Sql(" WHERE "), Sql("1=1"), Sql(" ORDER BY "),
             Raw(call.order_by), Sql(" LIMIT "), Ph("limit")>>
      /\ DOMAIN store[1].values = {"limit"}
      /\ store[1].values["limit"] = Num(call.limit)
      /\ plan.conditions = <<>>
      /\ ret.status = "success" =>
            /\ ret.count = (IF db.nrows <= call.limit THEN db.nrows ELSE call.limit)
            /\ Len(ret.results) = ret.count

\* A successful search without filters that returned a row.
C15_Witness ==
    /\ Built
    /\ call.filters = <<>>
    /\ call.limit = DefaultLimit
    /\ ret.status = "success"
    /\ ret.count = 1

----------------------------------------------------------------------------
\* C16: $is_null compiles to
\* `(field IS NULL OR field = '' OR field = 'Not Set')` and $is_not_null to
\* its exact logical negation; both bind no parameter, so for every stored
\* value (NULL, empty string, 'Not Set', any other) exactly one of the two
\* predicates holds.
StoredValues == {"NULL", "", "Not Set", "Acme"}

\* The test and the connective a piece of text after a column stands for.
AtomOf(t) ==
    CASE t = " IS NULL OR " -> [test |-> "is null", conn |-> "or"]
      [] t = " = '' OR " -> [test |-> "= ''", conn |-> "or"]
      [] t = " = 'Not Set')" -> [test |-> "= 'Not Set'", conn |-> "end"]
      [] t = " IS NOT NULL AND " -> [test |-> "is not null", conn |-> "and"]
      [] t = " != '' AND " -> [test |-> "!= ''", conn |-> "and"]
      [] t = " != 'Not Set')" -> [test |-> "!= 'Not Set'", conn |-> "end"]
      [] OTHER -> [test |-> "?", conn |-> "?"]

\* Three-valued truth of one test on a stored value: "T", "F" or "U".
Test3(test, v) ==
    CASE test = "is null" -> IF v = "NULL" THEN "T" ELSE "F"
      [] test = "is not null" -> IF v = "NULL" THEN "F" ELSE "T"
      [] v = "NULL" -> "U"
      [] test = "= ''" -> IF v = "" THEN "T" ELSE "F"
      [] test = "!= ''" -> IF v = "" THEN "F" ELSE "T"
      [] test = "= 'Not Set'" -> IF v = "Not Set" THEN "T" ELSE "F"
      [] test = "!= 'Not Set'" -> IF v = "Not Set" THEN "F" ELSE "T"
      [] OTHER -> "U"

Or3(a, b) == IF "T" \in {a, b} THEN "T" ELSE IF "U" \in {a, b} THEN "U" ELSE "F"
And3(a, b) == IF "F" \in {a, b} THEN "F" ELSE IF "U" \in {a, b} THEN "U" ELSE "T"

\* The truth of a parenthesized condition `(col test conn col test ...)`.
RECURSIVE Eval3(_, _, _)
Eval3(cond, i, v) ==
    LET a == AtomOf(cond[i + 1].s)
        here == Test3(a.test, v)
    IN  IF a.conn = "or" THEN Or3(here, Eval3(cond, i + 2, v))
        ELSE IF a.conn = "and" THEN And3(here, Eval3(cond, i + 2, v))
        ELSE here

\* The row is selected: the condition is true, not false or unknown.
Selects(cond, v) == Eval3(cond, 2, v) = "T"

NullOperators == {"$is_null", "$is_not_null"}

OtherNullOperator(operator) ==
    IF operator = "$is_null" THEN "$is_not_null" ELSE "$is_null"

C16_NullPredicatesComplementary ==
    Done =>
      \A n \in DOMAIN plan.emits :
        LET em == plan.emits[n]
            other == Recompiled([em EXCEPT !.op = OtherNullOperator(em.op)], em.arg)
        IN  em.op \in NullOperators =>
              /\ em.outcome = "emitted"
              /\ em.binds = <<>>
              /\ Len(em.conds) = 1
              /\ em.op = "$is_null" =>
                    em.conds[1] = <<Sql("("), Col(em.field), Sql(" IS NULL OR "),
                                    Col(em.field), Sql(" = '' OR "),
                                    Col(em.field), Sql(" = 'Not Set')")>>
              /\ other.outcome = "emitted"
              /\ other.binds = <<>>
              /\ \A v \in StoredValues :
                    Selects(em.conds[1], v) # Selects(other.conds[1], v)

----------------------------------------------------------------------------
\* C17: count_documents with filters returns the identifiers of all
\* matching records (document_names) exactly when 0 < total_count <= 5,
\* the full first record (first_result) exactly when total_count = 1, and
\* neither when total_count is 0 or greater than 5.
Counted ==
    /\ pc = "done"
    /\ via = "handler.count_documents"
    /\ call.filters # <<>>

C17_SmallCountsCarryNames ==
    (Counted /\ resp.status = "success") =>
      /\ "document_names" \in DOMAIN resp
            <=> (0 < resp.total_count /\ resp.total_count <= 5)
      /\ "first_result" \in DOMAIN resp <=> resp.total_count = 1
      /\ "document_names" \in DOMAIN resp =>
            /\ ret.status = "success"
            /\ resp.total_count = db.nrows
            /\ resp.document_names = [i \in 1..db.nrows |-> ret.results[i].name]
      /\ "first_result" \in DOMAIN resp => resp.first_result = ret.results[1]

\* A count of five matching records: all five names, no first record.
C17_Witness ==
    /\ Counted
    /\ resp.status = "success"
    /\ resp.total_count = 5
    /\ Len(resp.document_names) = 5
    /\ "first_result" \notin DOMAIN resp

----------------------------------------------------------------------------
\* C18: when the filtered search under count_documents fails (the store
\* raises, or an error occurs while the query is built), count_documents
\* returns an error result; it never reports status success with
\* total_count 0 for a read that failed.
C18_FailedCountIsError ==
    (Counted /\ ret.status = "error") => resp.status = "error"

----------------------------------------------------------------------------
\* C19: the count_documents endpoint, given a doctype and a non-empty
\* filter spec, returns as total_count the number of records of that
\* doctype that match the filters, for every doctype, those with a
\* registered handler (Customer) included; the filters are never ignored.
C19_EndpointCountsMatches ==
    (/\ pc = "done"
     /\ via = "api.count_documents"
     /\ call.doctype # ""
     /\ call.filters # <<>>
     /\ ~db.raised
     /\ ~CompileFilters(NewAcc, call.filters, DateFields, today).raised)
      => /\ resp.status = "success"
         /\ resp.total_count = db.nrows

----------------------------------------------------------------------------
\* C20: on success a search returns filters_applied equal to the filter
\* spec the caller supplied, through the handler and through the endpoint:
\* the caller's mapping is not modified, and keys dropped or mapped and
\* values normalized while compiling do not show in the echo.
C20_EchoIsOriginal ==
    /\ (Done /\ ret.status = "success") => ret.filters_applied = call.filters
    /\ (pc = "done" /\ via = "api.dynamic_search" /\ resp.status = "success") =>
          /\ "filters_applied" \in DOMAIN resp
          /\ resp.filters_applied = call.filters

\* A successful search through an alias key with a keyword value: the
\* statement has the mapped column and the normalized bounds, the echo has
\* the key and the value as given.
C20_Witness ==
    /\ Built
    /\ ret.status = "success"
    /\ call.filters = <<Entry("created", Str("today"))>>
    /\ "creation_start" \in DOMAIN store[1].values
    /\ ret.filters_applied = <<Entry("created", Str("today"))>>

----------------------------------------------------------------------------
\* C22: field resolution maps created and created_date to creation, date
\* and order_date to transaction_date, and leaves every other key as it
\* is; the predicate, the parameter names and the date/datetime
\* classification all use the resolved name, never the alias: an entry
\* under an alias compiles to what the same value compiles to under the
\* canonical key.
Canonical(key) ==
    CASE key \in {"created", "created_date"} -> "creation"
      [] key \in {"date", "order_date"} -> "transaction_date"
      [] OTHER -> key

ColumnsOf(conds) ==
    {conds[c][t].s : <<c, t>> \in
        {x \in (DOMAIN conds) \X (1..12) :
            x[2] \in DOMAIN conds[x[1]] /\ conds[x[1]][x[2]].t = "col"}}

C22_AliasResolved ==
    Done =>
      \A n \in DOMAIN plan.emits :
        LET em == plan.emits[n]
            canon == Recompiled([em EXCEPT !.key = Canonical(em.key)], em.arg)
        IN  /\ em.field = Canonical(em.key)
            /\ ColumnsOf(em.conds) \subseteq {em.field}
            /\ em.key \in AliasKeys =>
                  /\ em.key \notin ColumnsOf(em.conds)
                  /\ \A name \in BindNames(em) :
                        name \notin {em.key, OpParam(em.key, em.op),
                                     em.key \o "_start", em.key \o "_end"}
            /\ em.outcome \in {"emitted", "unnormalized", "no_branch"} =>
                  /\ em.conds = canon.conds
                  /\ em.binds = canon.binds
                  /\ em.outcome = canon.outcome

\* A search on Customer through the alias created with the keyword today:
\* the day range on creation, as for a datetime field.
C22_Witness ==
    /\ Built
    /\ ret.status = "success"
    /\ call.filters = <<Entry("created", Str("today"))>>
    /\ DOMAIN store[1].values = {"creation_start", "creation_end", "limit"}
    /\ Contains(store[1].query, <<Col("creation"), Sql(" >= "), Ph("creation_start")>>)

----------------------------------------------------------------------------
\* C23: for every recognized symbolic keyword (today, yesterday, tomorrow,
\* this week, last week, this month, N days/weeks/months ago) and every
\* accepted literal date on a date-only field, the value the comparison is
\* bound to is a date string in YYYY-MM-DD format, the same format for all.
C23_DateOnlyIsoFormat ==
    Done =>
      \A n \in DOMAIN plan.emits :
        LET em == plan.emits[n]
        IN  (/\ IsDateOnly(em.field)
             /\ em.op \in {"", "$gte", "$lte"}
             /\ em.arg.k = "str"
             /\ (IsKeyword(StripLower(em.arg.s))
                 \/ AcceptedLiteral(StripLower(em.arg.s)))) =>
              /\ em.outcome = "emitted"
              /\ Len(em.binds) = 1
              /\ em.binds[1][2].k = "date"
              /\ em.binds[1][2].fmt = "iso"

----------------------------------------------------------------------------
\* C29: when two distinct filter keys resolve to the same canonical field
\* (created and creation, date and transaction_date), each resulting
\* condition is bound to its own input value: in the parameter map of the
\* executed statement, every parameter named by one key's condition holds
\* the value that key's entry bound, not the other's.
C29_AliasesKeepOwnValues ==
    Built =>
      \A m, n \in DOMAIN plan.emits :
        (/\ m # n
         /\ plan.emits[m].key # plan.emits[n].key
         /\ plan.emits[m].field = plan.emits[n].field) =>
           \A i \in DOMAIN plan.emits[m].binds :
              store[1].values[plan.emits[m].binds[i][1]] = plan.emits[m].binds[i][2]

----------------------------------------------------------------------------
\* C30: for $gte and $lte on a plain field (one not in the entity's
\* date-field set, such as a numeric amount), dynamic_search compares the
\* column directly with the operand as given; DATE() is applied only when
\* the field is a date-only field.
HasDateWrap(cond) ==
    \E t \in DOMAIN cond :
       /\ cond[t].t = "sql"
       /\ cond[t].s \in {"DATE(", ") >= DATE(", ") <= DATE(", ") = DATE(",
                         " >= DATE(", " <= DATE(", " = DATE("}

C30_PlainBoundsDirect ==
    Done =>
      \A n \in DOMAIN plan.emits :
        LET em == plan.emits[n]
        IN  /\ (IsPlain(em.field) /\ em.op \in {"$gte", "$lte"}) =>
                  /\ em.outcome = "emitted"
                  /\ em.conds = << <<Col(em.field),
                                     Sql(" " \o SqlOp(em.op) \o " "),
                                     Ph(OpParam(em.field, em.op))>> >>
                  /\ em.binds = << <<OpParam(em.field, em.op), em.arg>> >>
            /\ \A c \in DOMAIN em.conds :
                  HasDateWrap(em.conds[c]) => IsDateOnly(em.field)

----------------------------------------------------------------------------
\* C21: searches share no mutable state.  Under every interleaving of
\* concurrent dynamic_search calls, what a call that has returned built
\* (conditions, bound parameters, statement), what it handed to the store
\* and what it returned are exactly what the call does alone with the same
\* request, clock and store outcome; nothing of an earlier call of the
\* same worker is in it.
C21_CallsIsolated ==
    \A p \in DOMAIN workers :
        workers[p].pc = "done" =>
            /\ workers[p].search =
                  Search(workers[p].call.doctype, workers[p].call.filters,
                         workers[p].call.limit, workers[p].call.order_by,
                         today, workers[p].outcome)
            /\ \A k \in DOMAIN workers[p].search.stmts :
                  \E n \in DOMAIN store : store[n] = workers[p].search.stmts[k]

\* A worker's second call has returned with conditions of its own; it ran
\* while another worker was in its loop with conditions built, and its
\* first call had built conditions too.
C21_Witness ==
    \E p \in DOMAIN workers :
        /\ workers[p].pc = "done"
        /\ workers[p].calls = MaxCalls
        /\ workers[p].overlap
        /\ workers[p].search.plan.conditions # <<>>
        /\ Len(store) >= 2
        /\ \E q \in DOMAIN workers :
              q # p /\ workers[q].pc = "loop" /\ workers[q].acc.conditions # <<>>

----------------------------------------------------------------------------
(* Vocabulary of the PDF session properties.                               *)

\* The orders created for a session as one upload left it.
OrdersOf(session_id, timestamp) ==
    {n \in DOMAIN orders :
        orders[n].session = session_id /\ orders[n].timestamp = timestamp}

\* The last step was a handle_user_response that returned.
ChatAnswered == reply # NoRet /\ reply.handler = "handle_user_response"

\* The chat found a context and parsed the message.
ChatParsed == ChatAnswered /\ reply.outcome # "no active session"

\* A keyword of lines 139-147 occurs in the message.
HasKeyword(user_message) ==
    \E keyword \in ConfirmKeywords \cup CancelKeywords \cup ShowKeywords :
        Occurs(keyword, strip(lower(user_message)))

\* One of the patterns of lines 154-169 matches the message.
HasModification(user_message) ==
    Modifications(strip(lower(user_message))) # <<>>

\* The replies that end a conversation's context, and those that keep it.
EndingOutcomes == {"completed", "cancelled"}
KeepingOutcomes == {"failed to create", "updated", "failed to update",
                    "data", "help"}

\* The replies each parsed action leads to.
OutcomesOf(action) ==
    CASE action = "confirm" -> {"completed", "failed to create"}
      [] action = "cancel" -> {"cancelled"}
      [] action = "modify" -> {"updated", "failed to update"}
      [] action = "show_data" -> {"data"}
      [] OTHER -> {"help"}

----------------------------------------------------------------------------
\* C24: once cancel_session has succeeded for a session, no
\* confirm_and_create_order that finds the session cancelled creates a
\* sales order: it returns an error.
C24_CancelledNeverOrdered ==
    \A n \in DOMAIN orders : orders[n].found # "cancelled"

\* C25: every message `change customer to X`, and each of the other
\* modification phrases of the help text, is parsed to the action modify;
\* a message with no keyword in it that matches no modification pattern
\* is parsed to unknown.
C25_ModificationPhrasesModify ==
    ChatParsed =>
        /\ \A name \in CustomerNames :
              reply.said = ChangeCustomer(name) => reply.action = "modify"
        /\ reply.said \in {SayChangeDate, SayChangeDelivery, SayChangeQuantity}
              => reply.action = "modify"
        /\ (~HasKeyword(reply.said) /\ ~HasModification(reply.said))
              => reply.action = "unknown"

\* C26: once a confirm_and_create_order has returned success for a
\* session, no later confirm_and_create_order on it creates a sales order,
\* whatever update_extracted_data, get_session_data and cancel_session
\* calls come in between.
C26_NoOrderAfterConfirmation ==
    \A n \in DOMAIN orders : ~orders[n].late

\* C27: two confirm_and_create_order calls that both read the same
\* pending session create at most one sales order between them.
C27_ConcurrentConfirmsOneOrder ==
    \A session_id \in Ids, timestamp \in 1..clock :
        Cardinality({n \in OrdersOf(session_id, timestamp) :
                        orders[n].found = "pending_confirmation"}) <= 1

====
